---- MODULE Spec2Model ----
(***************************************************************************)
(* Pose tracking of staus/alva-arjs: the TrackerManager (fusion engine),   *)
(* the AlvaTracker frame loop with its loss-recovery holder, the marker    *)
(* ImageTracker and the GPSTracker, as one state machine.                  *)
(*                                                                         *)
(* JavaScript runs one task at a time: every action below is one task (an  *)
(* API call, a timer callback, an event) run to completion.  A suspended   *)
(* async function is kept as state and resumed by its own action.          *)
(*                                                                         *)
(* A timer handle (the number setTimeout returns) is modelled by what it   *)
(* refers to: "unset" (the field is null), "live" (the timer it names is   *)
(* pending) or "dead" (the timer it names fired or was cleared; the field  *)
(* still holds the number, which is truthy).  A pending timer that no      *)
(* field names any more is counted as an orphan.                           *)
(***************************************************************************)
EXTENDS FiniteSets, Integers, Sequences, TLC

\* ---------------------------------------------------------------- bounds
MaxLost == 7            \* consecutive no-pose frames explored
MaxStarts == 2          \* start() calls suspended at the same time
MaxImageTimers == 1     \* frame timers of the manager's ImageTracker pending
MaxClock == 1000        \* latest clock reading explored (ms)
MaxLostManaged == 1     \* consecutive no-pose frames explored under the manager
MaxStartsManaged == 1   \* start() calls suspended at a time under the manager
MaxCalls == 2           \* updateConfig calls among those tasks
MaxTasks == 6           \* tasks (calls, timers, events) run under the manager

MaxBlends == 2          \* smoothing steps in a row explored
QScale == 100           \* grid on which a normalized quaternion is rounded
MaxGpsClock == 4000     \* latest clock reading of the bare GPS tracker (ms)
MaxAdaptiveClock == 4600 \* latest clock reading of the adaptive tracker (ms)
MaxRecoveryClock == 600 \* latest clock reading of the backlog/recovery loop (ms)

\* ------------------------------------------------------ program constants
maxConsecutiveLostFrames == 5

\* ----------------------------------------------------------------- poses
\* null / undefined pose
Null == [none |-> TRUE]

\* two 4x4 transforms the estimator can return (row-major, index 1..16
\* for the source's 0..15)
RawA == <<1, 0, 0, 0,  0, 1, 0, 0,  0, 0, 1, 0,  2, 3, 4, 1>>
RawB == <<0, 1, 0, 0,  -1, 0, 0, 0,  0, 0, 1, 0,  5, -6, 7, 1>>
RawPoses == {RawA, RawB}

convertPoseToThreeJS(pose) ==
    [matrix |-> [i \in 1..16 |->
        IF i \in {1, 3, 14, 15} THEN 0 - pose[i] ELSE pose[i]]]

\* what the marker detector's object3d holds when the marker is visible
MarkerA == [position |-> <<1, 2, 3>>, rotation |-> <<0, 1, 0>>]
MarkerB == [position |-> <<4, 5, 6>>, rotation |-> <<1, 0, 0>>]
MarkerPoses == {MarkerA, MarkerB}

MarkerPose(o) == [position |-> o.position, orientation |-> o.rotation]

\* --------------------------------------------------------------- timers
clearTimeout(h) == IF h = "live" THEN "dead" ELSE h

\* frame inputs: what one frame finds.  "throw": the estimator or detector
\* throws; "posethrow", "nonethrow": a pose or none is found and the
\* onPoseUpdate callback throws
AlvaInputs ==
    {[kind |-> "pose", raw |-> r] : r \in RawPoses}
    \cup {[kind |-> k, raw |-> RawA] :
              k \in {"none", "notready", "throw", "posethrow", "nonethrow"}}

MarkerInputs ==
    {[kind |-> "pose", obj |-> o] : o \in MarkerPoses}
    \cup {[kind |-> k, obj |-> MarkerA] :
              k \in {"none", "throw", "posethrow", "nonethrow"}}

\* ============================================================ AlvaTracker
\* (src/three/tracking/AlvaTracker.js, the revision with the holder)
AlvaNew ==
    [isRunning |-> FALSE, alva |-> FALSE, ctx |-> FALSE, video |-> FALSE,
     lastPose |-> Null, poseTimeout |-> "unset", consecutiveLostFrames |-> 0,
     frameTimeout |-> "unset",
     \* runtime state owned by the event loop, not by the object
     frameOrphans |-> 0, poseOrphans |-> 0, starts |-> 0]

\* AlvaAR.Initialize resolved (ok) or rejected
AlvaInitialize(t, ok) == [t EXCEPT !.ctx = TRUE, !.alva = ok]

AlvaScheduleNextFrame(t) ==
    LET h == IF t.frameTimeout # "unset" THEN clearTimeout(t.frameTimeout)
             ELSE t.frameTimeout
    IN [t EXCEPT !.frameTimeout = "live",
                 !.frameOrphans = IF h = "live" THEN @ + 1 ELSE @]

\* variant of AlvaPoseFound that leaves the pose timeout armed
AlvaPoseFound_KeepsTimer(t, raw) ==
    LET c == convertPoseToThreeJS(raw) IN
    [t |-> [t EXCEPT !.lastPose = c, !.consecutiveLostFrames = 0],
     out |-> <<c>>]

\* the estimator returned a pose
AlvaPoseFound(t, raw) ==
    LET c == convertPoseToThreeJS(raw) IN
    [t |-> [t EXCEPT !.lastPose = c,
                     !.consecutiveLostFrames = 0,
                     !.poseTimeout = IF @ # "unset" THEN clearTimeout(@) ELSE @],
     out |-> <<c>>]

\* variant of AlvaPoseLost that compares the cap with <=
AlvaPoseLost_CapInclusive(t) ==
    LET n == t.consecutiveLostFrames + 1
        t1 == [t EXCEPT !.consecutiveLostFrames = n]
    IN IF t1.lastPose # Null /\ n <= maxConsecutiveLostFrames
       THEN [t |-> IF t1.poseTimeout = "unset"
                   THEN [t1 EXCEPT !.poseTimeout = "live"]
                   ELSE t1,
             out |-> <<t1.lastPose>>]
       ELSE [t |-> t1, out |-> <<Null>>]

\* variant of AlvaPoseLost that re-emits the held pose without a cap
AlvaPoseLost_NoCap(t) ==
    LET n == t.consecutiveLostFrames + 1
        t1 == [t EXCEPT !.consecutiveLostFrames = n]
    IN IF t1.lastPose # Null
       THEN [t |-> IF t1.poseTimeout = "unset"
                   THEN [t1 EXCEPT !.poseTimeout = "live"]
                   ELSE t1,
             out |-> <<t1.lastPose>>]
       ELSE [t |-> t1, out |-> <<Null>>]

\* the estimator returned nothing
AlvaPoseLost(t) ==
    LET n == t.consecutiveLostFrames + 1
        t1 == [t EXCEPT !.consecutiveLostFrames = n]
    IN IF t1.lastPose # Null /\ n < maxConsecutiveLostFrames
       THEN [t |-> IF t1.poseTimeout = "unset"
                   THEN [t1 EXCEPT !.poseTimeout = "live"]
                   ELSE t1,
             out |-> <<t1.lastPose>>]
       ELSE [t |-> t1, out |-> <<Null>>]

\* variant of AlvaProcessFrame whose catch block does not schedule
AlvaProcessFrame_CatchEndsLoop(t, in) ==
    IF ~t.isRunning \/ ~t.ctx \/ ~t.video \/ ~t.alva
    THEN [t |-> t, out |-> <<>>]
    ELSE IF in.kind = "notready"
    THEN [t |-> AlvaScheduleNextFrame(t), out |-> <<>>]
    ELSE IF in.kind = "throw"
    THEN [t |-> t, out |-> <<>>]
    ELSE IF in.kind = "posethrow"
    THEN [t |-> t, out |-> <<convertPoseToThreeJS(in.raw)>>]
    ELSE IF in.kind = "nonethrow"
    THEN [t |-> [t EXCEPT !.consecutiveLostFrames = @ + 1],
          out |-> AlvaPoseLost(t).out]
    ELSE LET r == IF in.kind = "pose" THEN AlvaPoseFound(t, in.raw)
                  ELSE AlvaPoseLost(t)
         IN [t |-> AlvaScheduleNextFrame(r.t), out |-> r.out]

\* a callback that throws is left before the statements after the call: the
\* pose is not remembered, the pose timeout is not armed
\* variant of AlvaProcessFrame that treats a frame of an unready video as a
\* frame without a pose
AlvaProcessFrame_NotReadyIsLost(t, in) ==
    IF ~t.isRunning \/ ~t.ctx \/ ~t.video \/ ~t.alva
    THEN [t |-> t, out |-> <<>>]
    ELSE IF in.kind = "throw"
    THEN [t |-> AlvaScheduleNextFrame(t), out |-> <<>>]
    ELSE IF in.kind = "posethrow"
    THEN [t |-> AlvaScheduleNextFrame(t), out |-> <<convertPoseToThreeJS(in.raw)>>]
    ELSE IF in.kind = "nonethrow"
    THEN [t |-> AlvaScheduleNextFrame([t EXCEPT !.consecutiveLostFrames = @ + 1]),
          out |-> AlvaPoseLost(t).out]
    ELSE LET r == IF in.kind = "pose" THEN AlvaPoseFound(t, in.raw)
                  ELSE AlvaPoseLost(t)
         IN [t |-> AlvaScheduleNextFrame(r.t), out |-> r.out]

AlvaProcessFrame(t, in) ==
    IF ~t.isRunning \/ ~t.ctx \/ ~t.video \/ ~t.alva
    THEN [t |-> t, out |-> <<>>]
    ELSE IF in.kind \in {"notready", "throw"}
    THEN [t |-> AlvaScheduleNextFrame(t), out |-> <<>>]
    ELSE IF in.kind = "posethrow"
    THEN [t |-> AlvaScheduleNextFrame(t), out |-> <<convertPoseToThreeJS(in.raw)>>]
    ELSE IF in.kind = "nonethrow"
    THEN [t |-> AlvaScheduleNextFrame([t EXCEPT !.consecutiveLostFrames = @ + 1]),
          out |-> AlvaPoseLost(t).out]
    ELSE LET r == IF in.kind = "pose" THEN AlvaPoseFound(t, in.raw)
                  ELSE AlvaPoseLost(t)
         IN [t |-> AlvaScheduleNextFrame(r.t), out |-> r.out]

\* variant of AlvaPoseTimeoutFired that keeps the held pose
AlvaPoseTimeoutFired_KeepsPose(t) ==
    [t |-> t, out |-> <<Null>>]

\* the callback of the pose timeout
AlvaPoseTimeoutFired(t) ==
    [t |-> [t EXCEPT !.lastPose = Null], out |-> <<Null>>]

\* start(video) up to its await; v is FALSE for a null video, whose
\* waitForVideoDimensions rejects
AlvaStart(t, v) ==
    IF t.isRunning THEN t
    ELSE IF v THEN [t EXCEPT !.video = TRUE, !.starts = @ + 1]
    ELSE [t EXCEPT !.video = FALSE, !.isRunning = FALSE]

\* start(video) after its await
AlvaStartResumed(t, in) ==
    LET t1 == [t EXCEPT !.starts = @ - 1,
                        !.isRunning = TRUE,
                        !.lastPose = Null,
                        !.poseTimeout = IF @ # "unset" THEN clearTimeout(@) ELSE @]
    IN AlvaProcessFrame(t1, in)

AlvaStop(t) ==
    [t EXCEPT !.isRunning = FALSE,
              !.frameTimeout = IF @ # "unset" THEN clearTimeout(@) ELSE @,
              !.poseTimeout = IF @ # "unset" THEN clearTimeout(@) ELSE @]

\* ============================================ ImageTracker with the holder
\* (src/unnamed/part_004)
MarkerNew ==
    [isRunning |-> FALSE, isInitialized |-> FALSE, arToolkitContext |-> FALSE,
     video |-> FALSE, lastPose |-> Null, poseTimeout |-> "unset",
     consecutiveLostFrames |-> 0, frameTimeout |-> "unset",
     frameOrphans |-> 0, poseOrphans |-> 0, starts |-> 0]

MarkerDispose(t) ==
    [t EXCEPT !.isRunning = FALSE,
              !.frameTimeout = IF @ # "unset" THEN clearTimeout(@) ELSE @,
              !.poseTimeout = IF @ # "unset" THEN clearTimeout(@) ELSE @,
              !.arToolkitContext = FALSE,
              !.isInitialized = FALSE]

MarkerInitialize(t, ok) ==
    IF t.isInitialized THEN t
    ELSE IF ok THEN [t EXCEPT !.arToolkitContext = TRUE, !.isInitialized = TRUE]
    ELSE MarkerDispose([t EXCEPT !.arToolkitContext = TRUE])

MarkerScheduleNextFrame(t) ==
    LET h == IF t.frameTimeout # "unset" THEN clearTimeout(t.frameTimeout)
             ELSE t.frameTimeout
    IN [t EXCEPT !.frameTimeout = "live",
                 !.frameOrphans = IF h = "live" THEN @ + 1 ELSE @]

MarkerVisible(t, obj) ==
    LET p == MarkerPose(obj) IN
    [t |-> [t EXCEPT !.lastPose = p,
                     !.consecutiveLostFrames = 0,
                     !.poseTimeout = IF @ # "unset" THEN clearTimeout(@) ELSE @],
     out |-> <<p>>]

MarkerLost(t) ==
    LET n == t.consecutiveLostFrames + 1
        t1 == [t EXCEPT !.consecutiveLostFrames = n]
    IN IF t1.lastPose # Null /\ n < maxConsecutiveLostFrames
       THEN [t |-> IF t1.poseTimeout = "unset"
                   THEN [t1 EXCEPT !.poseTimeout = "live"]
                   ELSE t1,
             out |-> <<t1.lastPose>>]
       ELSE [t |-> t1, out |-> <<Null>>]

MarkerProcessFrame(t, in) ==
    IF ~t.isRunning \/ ~t.video \/ ~t.arToolkitContext
    THEN [t |-> t, out |-> <<>>]
    ELSE IF in.kind = "throw"
    THEN [t |-> MarkerScheduleNextFrame(t), out |-> <<>>]
    ELSE IF in.kind = "posethrow"
    THEN [t |-> MarkerScheduleNextFrame(t), out |-> <<MarkerPose(in.obj)>>]
    ELSE IF in.kind = "nonethrow"
    THEN [t |-> MarkerScheduleNextFrame([t EXCEPT !.consecutiveLostFrames = @ + 1]),
          out |-> MarkerLost(t).out]
    ELSE LET r == IF in.kind = "pose" THEN MarkerVisible(t, in.obj)
                  ELSE MarkerLost(t)
         IN [t |-> MarkerScheduleNextFrame(r.t), out |-> r.out]

MarkerPoseTimeoutFired(t) ==
    [t |-> [t EXCEPT !.lastPose = Null], out |-> <<Null>>]

\* start(video): synchronous up to its end; throws when not initialized
MarkerStart(t, in) ==
    IF ~t.isInitialized \/ t.isRunning THEN [t |-> t, out |-> <<>>]
    ELSE MarkerProcessFrame(
            [t EXCEPT !.video = TRUE,
                      !.isRunning = TRUE,
                      !.lastPose = Null,
                      !.poseTimeout = IF @ # "unset" THEN clearTimeout(@) ELSE @],
            in)

MarkerStop(t) ==
    [t EXCEPT !.isRunning = FALSE,
              !.frameTimeout = IF @ # "unset" THEN clearTimeout(@) ELSE @,
              !.poseTimeout = IF @ # "unset" THEN clearTimeout(@) ELSE @]

\* ============================================================= GPSTracker
\* (src/three/tracking/GPSTracker.js)
updateInterval == 1000

\* a GeolocationPosition; a null altitude or heading is the empty tuple
GpsFixA == [longitude |-> 12, latitude |-> 55, altitude |-> <<>>,
            heading |-> <<90>>, timestamp |-> 7]
GpsFixes == {GpsFixA}

\* JavaScript's  v || 0  for a number or null
OrZero(v) == IF v = <<>> THEN 0 ELSE v[1]

GpsPose(position) ==
    [position |-> <<position.longitude, position.latitude,
                    OrZero(position.altitude)>>,
     orientation |-> <<0, 0, OrZero(position.heading)>>,
     timestamp |-> position.timestamp]

GpsNew ==
    [isRunning |-> FALSE, watchId |-> FALSE, lastPosition |-> Null,
     lastUpdateTime |-> 0,
     \* feed subscriptions open in navigator.geolocation
     watches |-> 0]

\* variant of GpsStart without the isRunning test
GpsStart_NoGuard(t) ==
    [t EXCEPT !.isRunning = TRUE, !.watchId = TRUE, !.watches = @ + 1]

GpsStart(t) ==
    IF t.isRunning THEN t
    ELSE [t EXCEPT !.isRunning = TRUE, !.watchId = TRUE, !.watches = @ + 1]

\* variant of GpsStop that leaves the subscription open
GpsStop_LeavesWatch(t) ==
    IF ~t.isRunning THEN t
    ELSE [t EXCEPT !.isRunning = FALSE]

GpsStop(t) ==
    IF ~t.isRunning THEN t
    ELSE IF t.watchId
    THEN [t EXCEPT !.isRunning = FALSE, !.watchId = FALSE, !.watches = @ - 1]
    ELSE [t EXCEPT !.isRunning = FALSE]

\* variant of GpsHandlePositionUpdate that does not record the time of the
\* update it accepts
GpsHandlePositionUpdate_NoStamp(t, position, currentTime) ==
    IF currentTime - t.lastUpdateTime < updateInterval
    THEN [t |-> t, out |-> <<>>]
    ELSE [t |-> [t EXCEPT !.lastPosition = position],
          out |-> <<GpsPose(position)>>]

GpsHandlePositionUpdate(t, position, currentTime) ==
    IF currentTime - t.lastUpdateTime < updateInterval
    THEN [t |-> t, out |-> <<>>]
    ELSE [t |-> [t EXCEPT !.lastUpdateTime = currentTime,
                          !.lastPosition = position],
          out |-> <<GpsPose(position)>>]

\* variant of GpsHandleError that treats the error as fatal
GpsHandleError_Stops(t) == [t |-> GpsStop(t), out |-> <<Null>>]

GpsHandleError(t) == [t |-> t, out |-> <<Null>>]

\* ============================================================ ImageTracker
\* (src/three/tracking/ImageTracker.js, the one the TrackerManager builds)
\* translation part of tempCamera.matrix
CameraA == <<1, 2, 3>>
ImageInputs ==
    {[kind |-> k, position |-> CameraA] : k \in {"ok", "throw"}}

\* matrix.decompose writes the rotation into a temporary quaternion, the
\* Euler object that is reported keeps its initial value
ImagePose(position) == [position |-> position, orientation |-> <<0, 0, 0>>]

ImageNew ==
    [isRunning |-> FALSE, arToolkitContext |-> FALSE, markerControls |-> FALSE,
     video |-> FALSE, isMarkerVisible |-> FALSE,
     \* runtime state: window listeners registered, frame timers pending
     listeners |-> FALSE, timers |-> 0]

ImageStop(t) == [t EXCEPT !.isRunning = FALSE]

ImageDispose(t) ==
    [ImageStop(t) EXCEPT !.markerControls = FALSE, !.arToolkitContext = FALSE]

\* initialize() up to its first await
ImageInitializeBegin(t) ==
    [t EXCEPT !.arToolkitContext = TRUE, !.listeners = TRUE]

\* initialize() after its awaits: completed, or failed and caught
ImageInitializeEnd(t, ok) ==
    IF ok THEN [t EXCEPT !.markerControls = TRUE] ELSE ImageDispose(t)

ImageProcessFrame(t, in) ==
    IF ~t.isRunning \/ ~t.video \/ ~t.arToolkitContext
    THEN [t |-> t, out |-> <<>>]
    ELSE IF in.kind = "throw"
    THEN [t |-> [t EXCEPT !.timers = @ + 1], out |-> <<>>]
    ELSE [t |-> [t EXCEPT !.timers = @ + 1],
          out |-> IF t.isMarkerVisible THEN <<ImagePose(in.position)>> ELSE <<>>]

\* start(video); reading video.readyState of a null video throws
ImageStart(t, v, in) ==
    IF t.isRunning THEN [t |-> t, out |-> <<>>]
    ELSE IF ~v THEN [t |-> [t EXCEPT !.video = FALSE], out |-> <<>>]
    ELSE ImageProcessFrame([t EXCEPT !.video = TRUE, !.isRunning = TRUE], in)

ImageMarkerFound(t) == [t |-> [t EXCEPT !.isMarkerVisible = TRUE], out |-> <<>>]

ImageMarkerLost(t) == [t |-> [t EXCEPT !.isMarkerVisible = FALSE], out |-> <<Null>>]

\* ========================================================== TrackerManager
\* (src/three/tracking/TrackerManager.js)
ManagerSources == {"alva", "gps", "image"}

\* config.pose: the flags that are present; an absent flag reads undefined
PoseConfigs == UNION {[S -> BOOLEAN] : S \in SUBSET ManagerSources}

\* updateConfig arguments: a pose object with one flag, one with the alva and
\* gps flags (as the toggle buttons pass it), or no pose object ({debug: ..})
Updates ==
    {[hasPose |-> TRUE, pose |-> f] :
        f \in {g \in PoseConfigs :
                  Cardinality(DOMAIN g) = 1 \/ DOMAIN g = {"alva", "gps"}}}
    \cup {[hasPose |-> FALSE, pose |-> <<>>]}

Truthy(c, s) == s \in DOMAIN c /\ c[s]

\* this.config = { ...this.config, ...config }
MergeConfig(c, u) == IF u.hasPose THEN u.pose ELSE c

\* { ...this.currentPose, ...pose, source }
MergePose(cur, pose, src) ==
    LET tagged == [source |-> src] @@ pose
    IN IF cur = Null THEN tagged ELSE tagged @@ cur

\* variant of HandlePose in which a null report clears currentPose
HandlePose_NullResets(w, pose, src) ==
    IF pose = Null THEN [w EXCEPT !.currentPose = Null]
    ELSE LET cp == MergePose(w.currentPose, pose, src)
         IN [w EXCEPT !.currentPose = cp, !.sink = Append(@, cp)]

\* handleAlvaPose / handleGPSPose / handleImagePose
HandlePose(w, pose, src) ==
    IF pose = Null THEN w
    ELSE LET cp == MergePose(w.currentPose, pose, src)
         IN [w EXCEPT !.currentPose = cp, !.sink = Append(@, cp)]

\* the callback the manager hands to a tracker: guarded by the source's flag
RECURSIVE OnPoseUpdate(_, _, _)
OnPoseUpdate(w, src, poses) ==
    IF poses = <<>> THEN w
    ELSE LET w1 == [w EXCEPT !.out = Append(@, [src |-> src, pose |-> Head(poses)])]
             w2 == IF Truthy(w1.config, src) THEN HandlePose(w1, Head(poses), src)
                   ELSE w1
         IN OnPoseUpdate(w2, src, Tail(poses))

Without(f, x) == [y \in DOMAIN f \ {x} |-> f[y]]

Called(w, what, src) == [w EXCEPT ![what] = @ \cup {src}]

StopCalled(w, src) ==
    [Called(w, "stops", src) EXCEPT !.hist.stopOwed = @ \ {src}]

\* a tracker is constructed; alva and image are then awaited: the call is
\* suspended, remembering which of these flags were on before the call
Built(w, src) ==
    [w EXCEPT !.trackers[src] = TRUE,
              !.hist.built[src] = IF @ < 2 THEN @ + 1 ELSE @,
              !.pending = IF src = "gps" THEN @ ELSE (src :> w.pre) @@ @]

\* the alva part of updateConfig, up to the await of initialize()
UpdateAlva(w) ==
    IF Truthy(w.config, "alva")
    THEN IF ~w.trackers.alva
         THEN [Built(w, "alva") EXCEPT !.alva = [AlvaNew EXCEPT !.ctx = TRUE]]
         ELSE [Called(w, "starts", "alva") EXCEPT !.alva = AlvaStart(w.alva, w.video)]
    ELSE IF w.trackers.alva
         THEN [StopCalled(w, "alva") EXCEPT !.alva = AlvaStop(w.alva)]
         ELSE w

UpdateGps_AlwaysConstructs(w) ==
    IF Truthy(w.config, "gps")
    THEN LET w1 == [Built(w, "gps") EXCEPT !.gps = GpsNew]
         IN [Called(w1, "starts", "gps") EXCEPT !.gps = GpsStart(w1.gps)]
    ELSE IF w.trackers.gps
         THEN [StopCalled(w, "gps") EXCEPT !.gps = GpsStop(w.gps)]
         ELSE w

UpdateGps(w) ==
    IF Truthy(w.config, "gps")
    THEN LET w1 == IF ~w.trackers.gps
                   THEN [Built(w, "gps") EXCEPT !.gps = GpsNew]
                   ELSE w
         IN [Called(w1, "starts", "gps") EXCEPT !.gps = GpsStart(w1.gps)]
    ELSE IF w.trackers.gps
         THEN [StopCalled(w, "gps") EXCEPT !.gps = GpsStop(w.gps)]
         ELSE w

StartImage(w, in) ==
    LET r == ImageStart(w.image, w.video, in)
    IN OnPoseUpdate([Called(w, "starts", "image") EXCEPT !.image = r.t],
                    "image", r.out)

\* the image part of updateConfig, up to the await of initialize()
UpdateImage(w, in) ==
    IF Truthy(w.config, "image")
    THEN IF ~w.trackers.image
         THEN [Built(w, "image") EXCEPT !.image = ImageInitializeBegin(ImageNew)]
         ELSE StartImage(w, in)
    ELSE IF w.trackers.image
         THEN [StopCalled(w, "image") EXCEPT !.image = ImageStop(w.image)]
         ELSE w

\* updateConfig from after the alva part to its end or to the await of
\* image.initialize()
UpdateRest(w, in) == UpdateImage(UpdateGps(w), in)

\* how the merge changes what is owed: a constructed source whose flag goes
\* from true to false is owed a stop() until it is stopped or enabled again
OwedAfterMerge(owed, trk, c0, c1) ==
    (owed \ {s \in ManagerSources : Truthy(c1, s)})
    \cup {s \in ManagerSources : trk[s] /\ Truthy(c0, s) /\ ~Truthy(c1, s)}

\* updateConfig(u) from its call to its end or to its first await
UpdateConfig(w, u, in) ==
    LET c1 == MergeConfig(w.config, u)
        w1 == [w EXCEPT !.config = c1,
                        !.hist.stopOwed = OwedAfterMerge(@, w.trackers, w.config, c1)]
        w2 == UpdateAlva(w1)
    IN IF "alva" \in DOMAIN w2.pending /\ "alva" \notin DOMAIN w.pending
       THEN w2
       ELSE UpdateRest(w2, in)

\* updateConfig resumed after alva.initialize() settled
UpdateConfigAfterAlva(w, ok, in) ==
    LET w1 == [w EXCEPT !.alva = AlvaInitialize(@, ok),
                        !.pre = w.pending["alva"],
                        !.pending = Without(@, "alva")]
    IN IF ~ok THEN w1
       ELSE UpdateRest(
              [Called(w1, "starts", "alva") EXCEPT !.alva = AlvaStart(w1.alva, w1.video)],
              in)

\* updateConfig resumed after image.initialize() settled
UpdateConfigAfterImage(w, ok, in) ==
    LET w1 == [w EXCEPT !.image = ImageInitializeEnd(@, ok),
                        !.pre = w.pending["image"],
                        !.pending = Without(@, "image")]
    IN IF ~ok THEN w1 ELSE StartImage(w1, in)

\* stop(): every constructed tracker
ManagerStop(w) ==
    LET a == IF w.trackers.alva
             THEN [StopCalled(w, "alva") EXCEPT !.alva = AlvaStop(w.alva)] ELSE w
        g == IF a.trackers.gps
             THEN [StopCalled(a, "gps") EXCEPT !.gps = GpsStop(a.gps)] ELSE a
    IN IF g.trackers.image
       THEN [StopCalled(g, "image") EXCEPT !.image = ImageStop(g.image)] ELSE g

\* dispose(): AlvaTracker and GPSTracker have no dispose method, so the loop
\* over the trackers throws at the first of them that is constructed
ManagerDispose(w) ==
    LET w1 == ManagerStop(w)
    IN IF w1.trackers.alva \/ w1.trackers.gps \/ ~w1.trackers.image THEN w1
       ELSE [w1 EXCEPT !.image = ImageDispose(@),
                       !.trackers.image = FALSE,
                       !.hist.built["image"] = 0]

\* ============================================ TrackerManager with smoothing
\* (src/unnamed/part_002)
\* numbers are exact fractions: a vector is [v |-> numerators, d |-> their
\* common denominator]
\* variant of smoothingFactor: half way to the incoming value
smoothingFactor_Half == [n |-> 1, d |-> 2]

smoothingFactor == [n |-> 3, d |-> 10]

Vec(t) == [v |-> t, d |-> 1]

\* {} (an object without the fields) and NaN fields
Empty == [empty |-> TRUE]
NaNVec == [nan |-> TRUE]

IsVec(x) == DOMAIN x = {"v", "d"}

Abs(x) == IF x < 0 THEN 0 - x ELSE x

\* the same vector in lowest terms
Reduce(x) ==
    LET RECURSIVE Gcd(_, _)
        Gcd(a, b) == IF b = 0 THEN a ELSE Gcd(b, a % b)
        RECURSIVE GcdOf(_, _)
        GcdOf(t, g) == IF t = <<>> THEN g ELSE GcdOf(Tail(t), Gcd(Abs(Head(t)), g))
        g == GcdOf(x.v, x.d)
    IN [v |-> [i \in DOMAIN x.v |-> x.v[i] \div g], d |-> x.d \div g]

\* division rounding toward zero
Div(a, b) == IF a < 0 THEN 0 - ((0 - a) \div b) ELSE a \div b

\* x1*x2 + y1*y2 + z1*z2 + w1*w2
Dot(s, t) == s[1] * t[1] + s[2] * t[2] + s[3] * t[3] + s[4] * t[4]

\* Math.sqrt on integers, rounded down
Isqrt(n) ==
    LET RECURSIVE In(_, _)
        In(lo, hi) ==
            IF lo >= hi THEN lo
            ELSE LET mid == (lo + hi + 1) \div 2
                 IN IF mid * mid <= n THEN In(mid, hi) ELSE In(lo, mid - 1)
    IN In(0, IF n < 46340 THEN n ELSE 46340)

\* previous + smoothingFactor * (current - previous), on every component
smoothValue(current, previous) ==
    LET a == smoothingFactor IN
    Reduce([v |-> [i \in DOMAIN previous.v |->
                     (a.d - a.n) * previous.v[i] * current.d
                     + a.n * current.v[i] * previous.d],
            d |-> a.d * previous.d * current.d])

\* an undefined field of previous makes every component NaN
smoothVector(current, previous) ==
    IF IsVec(previous) THEN smoothValue(current, previous) ELSE NaNVec

\* variant of smoothQuaternion that never negates the incoming quaternion
smoothQuaternion_NoFlip(current, previous) ==
    IF ~IsVec(previous) THEN NaNVec ELSE smoothValue(current, previous)

\* -q
Neg(q) == [q EXCEPT !.v = [i \in DOMAIN @ |-> 0 - @[i]]]

smoothQuaternion(current, previous) ==
    IF ~IsVec(previous) THEN NaNVec
    ELSE IF Dot(current.v, previous.v) < 0
    THEN smoothValue(Neg(current), previous)
    ELSE smoothValue(current, previous)

\* q / Math.sqrt(x*x + y*y + z*z + w*w); the quotient is rounded to QScale
normalizeQuaternion(q) ==
    IF ~IsVec(q) THEN NaNVec
    ELSE LET k == IF \A i \in DOMAIN q.v : Abs(q.v[i]) <= QScale THEN QScale ELSE 1
             w == [i \in DOMAIN q.v |-> k * q.v[i]]
             length == Isqrt(Dot(w, w))
         IN IF length = 0 THEN NaNVec
            ELSE Reduce([v |-> [i \in DOMAIN w |-> Div(w[i] * QScale, length)],
                         d |-> QScale])

\* { ...pose.position }: a copy, or {} when the pose has no such field
Spread(pose, field) == IF field \in DOMAIN pose THEN pose[field] ELSE Empty

FusionNew ==
    [isFirstPose |-> TRUE,
     smoothedPosition |-> Vec(<<0, 0, 0>>),
     smoothedQuaternion |-> Vec(<<0, 0, 0, 1>>),
     currentPose |-> Null,
     \* history: smoothing steps since the last pose taken directly
     blends |-> 0]

\* smoothPose(pose) for a non-null pose; reading a component of an undefined
\* position or quaternion throws.  The pose returned has no orientation field
\* when the incoming pose has none.
smoothPose(f, pose) ==
    LET Smoothed(g, p) ==
            [position |-> g.smoothedPosition, quaternion |-> g.smoothedQuaternion]
            @@ [k \in {"orientation"} \cap DOMAIN p |-> p[k]]
    IN
    IF f.isFirstPose
    THEN LET f1 == [f EXCEPT !.smoothedPosition = Spread(pose, "position"),
                             !.smoothedQuaternion = Spread(pose, "quaternion"),
                             !.isFirstPose = FALSE,
                             !.blends = 0]
         IN [f |-> f1, threw |-> FALSE, pose |-> Smoothed(f1, pose)]
    ELSE IF "position" \notin DOMAIN pose
    THEN [f |-> f, threw |-> TRUE, pose |-> Null]
    ELSE LET f1 == [f EXCEPT !.smoothedPosition = smoothVector(pose.position, @),
                             !.blends = @ + 1]
         IN IF "quaternion" \notin DOMAIN pose
            THEN [f |-> f1, threw |-> TRUE, pose |-> Null]
            ELSE LET f2 == [f1 EXCEPT !.smoothedQuaternion =
                              normalizeQuaternion(smoothQuaternion(pose.quaternion, @))]
                 IN [f |-> f2, threw |-> FALSE, pose |-> Smoothed(f2, pose)]

\* variant of FusionHandlePose in which a null report leaves isFirstPose alone
FusionHandlePose_NullKeepsState(f, pose, src) ==
    IF pose = Null
    THEN [f |-> f, sink |-> <<Null>>]
    ELSE LET r == smoothPose(f, pose)
         IN IF r.threw THEN [f |-> r.f, sink |-> <<>>]
            ELSE LET cp == [source |-> src] @@ r.pose
                 IN [f |-> [r.f EXCEPT !.currentPose = cp], sink |-> <<cp>>]

\* handleAlvaPose / handleGPSPose: what the engine is afterwards and what it
\* passed to the consumer
FusionHandlePose(f, pose, src) ==
    IF pose = Null
    THEN [f |-> [f EXCEPT !.isFirstPose = TRUE], sink |-> <<Null>>]
    ELSE LET r == smoothPose(f, pose)
         IN IF r.threw THEN [f |-> r.f, sink |-> <<>>]
            ELSE LET cp == [source |-> src] @@ r.pose
                 IN [f |-> [r.f EXCEPT !.currentPose = cp], sink |-> <<cp>>]

\* =========================================== AlvaTracker, adaptive revision
\* (src/three/tracking/AlvaTracker.js from line 304)
\* scaleFactor is kept in thousandths; alva is the pair of dimensions the
\* estimator was initialized with, or Null
AdaptiveNew ==
    [isRunning |-> FALSE, alva |-> Null, ctx |-> FALSE, video |-> FALSE,
     currentFPS |-> 60, frameCount |-> 0, lastFPSUpdate |-> 0,
     processingBacklog |-> 0, maxBacklog |-> 3, scaleFactor |-> 1000,
     processedWidth |-> 0, processedHeight |-> 0, frameTimeout |-> "unset",
     \* runtime: cleared timers that still fire, suspended start() calls
     frameOrphans |-> 0, starts |-> 0,
     \* environment: client size of the processing canvas, ms from one frame
     \* to the next in this run
     display |-> <<0, 0>>, period |-> 0,
     \* history: clock reading when the running start() resumed
     startedAt |-> 0]

\* variant of determineOptimalScale without the closing clamp
determineOptimalScale_NoClamp(isMobile, memory, dpr) ==
    LET scale == IF isMobile
                 THEN (IF memory = 0 THEN 4000 ELSE memory) \div 4
                 ELSE 1000
    IN IF dpr > 1 THEN (scale * 3) \div 4 ELSE scale

\* memory: navigator.deviceMemory in thousandths of a GB, 0 when undefined
determineOptimalScale(isMobile, memory, dpr) ==
    LET Max(a, b) == IF a > b THEN a ELSE b
        Min(a, b) == IF a < b THEN a ELSE b
        scale == IF isMobile
                 THEN Min(1000, Max(500, (IF memory = 0 THEN 4000 ELSE memory) \div 4))
                 ELSE 1000
        adjusted == IF dpr > 1 THEN (scale * 3) \div 4 ELSE scale
    IN Max(500, Min(1000, adjusted))

updateProcessingDimensions(t) ==
    LET Dim(client, base) ==
            LET d == ((IF client = 0 THEN base ELSE client) * t.scaleFactor) \div 1000
            IN IF d < 1 THEN 1 ELSE d
    IN [t EXCEPT !.processedWidth = Dim(t.display[1], 640),
                 !.processedHeight = Dim(t.display[2], 480),
                 !.ctx = TRUE]

\* variant of updateFPS that steps by 0.2
updateFPS_DoubleStep(t, currentTime) ==
    LET t1 == [t EXCEPT !.frameCount = @ + 1] IN
    IF currentTime - t1.lastFPSUpdate < 1000 THEN t1
    ELSE LET fps == t1.frameCount
             t2 == [t1 EXCEPT !.currentFPS = fps, !.frameCount = 0,
                              !.lastFPSUpdate = currentTime]
         IN IF fps < 30
            THEN updateProcessingDimensions(
                   [t2 EXCEPT !.scaleFactor = IF @ - 200 < 500 THEN 500 ELSE @ - 200])
            ELSE IF fps > 45 /\ t2.scaleFactor < 1000
            THEN updateProcessingDimensions(
                   [t2 EXCEPT !.scaleFactor = IF @ + 200 > 1000 THEN 1000 ELSE @ + 200])
            ELSE t2

\* variant of updateFPS that lowers the scale below 20 FPS only
updateFPS_LowAt20(t, currentTime) ==
    LET t1 == [t EXCEPT !.frameCount = @ + 1] IN
    IF currentTime - t1.lastFPSUpdate < 1000 THEN t1
    ELSE LET fps == t1.frameCount
             t2 == [t1 EXCEPT !.currentFPS = fps, !.frameCount = 0,
                              !.lastFPSUpdate = currentTime]
         IN IF fps < 20
            THEN updateProcessingDimensions(
                   [t2 EXCEPT !.scaleFactor = IF @ - 100 < 500 THEN 500 ELSE @ - 100])
            ELSE IF fps > 45 /\ t2.scaleFactor < 1000
            THEN updateProcessingDimensions(
                   [t2 EXCEPT !.scaleFactor = IF @ + 100 > 1000 THEN 1000 ELSE @ + 100])
            ELSE t2

updateFPS(t, currentTime) ==
    LET t1 == [t EXCEPT !.frameCount = @ + 1] IN
    IF currentTime - t1.lastFPSUpdate < 1000 THEN t1
    ELSE LET fps == t1.frameCount
             t2 == [t1 EXCEPT !.currentFPS = fps, !.frameCount = 0,
                              !.lastFPSUpdate = currentTime]
         IN IF fps < 30
            THEN updateProcessingDimensions(
                   [t2 EXCEPT !.scaleFactor = IF @ - 100 < 500 THEN 500 ELSE @ - 100])
            ELSE IF fps > 45 /\ t2.scaleFactor < 1000
            THEN updateProcessingDimensions(
                   [t2 EXCEPT !.scaleFactor = IF @ + 100 > 1000 THEN 1000 ELSE @ + 100])
            ELSE t2

\* processFrame at clock reading currentTime.  est: the dimensions of the
\* frame handed to findCameraPose, <<>> when it was not called; calling it on
\* a null estimator throws, like drawImage or getImageData may ("throw")
AdaptiveProcessFrame(t, in, currentTime) ==
    IF ~t.isRunning \/ ~t.ctx \/ ~t.video
    THEN [t |-> t, out |-> <<>>, est |-> <<>>]
    ELSE LET t0 == IF t.processedWidth <= 0 \/ t.processedHeight <= 0
                   THEN updateProcessingDimensions(t) ELSE t
         IN IF in.kind \in {"notready", "throw"} \/ t0.alva = Null
            THEN [t |-> AlvaScheduleNextFrame(t0), out |-> <<>>, est |-> <<>>]
            ELSE [t |-> AlvaScheduleNextFrame(updateFPS(t0, currentTime)),
                  out |-> IF in.kind = "pose" THEN <<in.raw>> ELSE <<Null>>,
                  est |-> <<t0.processedWidth, t0.processedHeight>>]

\* ================================================================= state
VARIABLES
    driven,      \* "alva" / "marker": the tracker a bare harness drives;
                 \* "manager": the trackers are owned by a TrackerManager
    alva,        \* the AlvaTracker instance
    marker,      \* the ImageTracker instance of src/unnamed/part_004
    videoDims,   \* the video element reports videoWidth > 0 and videoHeight > 0
    out,         \* calls of a tracker's onPoseUpdate made by the last task
    last,        \* the last task: what ran, on which source, with what input
    hist,        \* history.  stopped: bare trackers stopped since their last
                 \* start() call; timedOut: bare trackers whose pose timeout
                 \* fired since their last fresh pose; stopOwed: sources the
                 \* manager disabled and has not stopped yet; built: how often
                 \* the manager constructed each source since its slot was null
    config,      \* TrackerManager.config.pose
    trackers,    \* TrackerManager.trackers: which slots are non-null
    gps,         \* the GPSTracker instance
    image,       \* the ImageTracker instance of the manager
    video,       \* TrackerManager.video is set
    currentPose, \* TrackerManager.currentPose
    pending,     \* updateConfig calls suspended at await x.initialize(), by x
    sink,        \* calls of the consumer's callback made by the last task
    now,         \* Date.now()
    tasks,       \* how many tasks have run under the manager
    calls,       \* how many of them were updateConfig calls
    fusion,      \* the smoothing TrackerManager of src/unnamed/part_002
    adaptive     \* the AlvaTracker of the adaptive revision

mgrVars == <<config, trackers, gps, image, video, currentPose, pending, sink,
             now, tasks, calls, fusion, adaptive>>

vars == <<driven, alva, marker, videoDims, out, last, hist, mgrVars>>

Emit(src, poses) == [i \in 1..Len(poses) |-> [src |-> src, pose |-> poses[i]]]

PoseTimerPending(t) == t.poseTimeout = "live" \/ t.poseOrphans > 0
FrameTimerPending(t) == t.frameTimeout = "live" \/ t.frameOrphans > 0

\* a continuation that runs before the next timer or event is served
MicrotaskReady == alva.starts > 0 /\ videoDims

\* preTimer, preHeld, preLost: the holder as the task's frame found it;
\* preRunning: isRunning as the task found it
Did(op, src, kind, t) ==
    [op |-> op, src |-> src, kind |-> kind,
     preTimer |-> PoseTimerPending(t), preHeld |-> t.lastPose,
     preLost |-> t.consecutiveLostFrames, preRunning |-> t.isRunning,
     starts |-> {}, stops |-> {}, drift |-> {}, meddled |-> {},
     pre |-> {}, unapplied |-> {}]

\* the tracker after one of its pending frame timers has fired
FrameFired(t) ==
    {[t EXCEPT !.frameTimeout = "dead"] : x \in {1} \cap {IF t.frameTimeout = "live" THEN 1 ELSE 0}}
    \cup {[t EXCEPT !.frameOrphans = @ - 1] : x \in {1} \cap {IF t.frameOrphans > 0 THEN 1 ELSE 0}}

PoseFired(t) ==
    {[t EXCEPT !.poseTimeout = "dead"] : x \in {1} \cap {IF t.poseTimeout = "live" THEN 1 ELSE 0}}
    \cup {[t EXCEPT !.poseOrphans = @ - 1] : x \in {1} \cap {IF t.poseOrphans > 0 THEN 1 ELSE 0}}

Accepted(r, in) == in.kind = "pose" /\ Len(r.out) > 0

HistAfterFrame(src, r, in) ==
    IF Accepted(r, in) THEN [hist EXCEPT !.timedOut = @ \ {src}] ELSE hist

\* ------------------------------------------------ bare AlvaTracker harness
LAlvaInitialize(ok) ==
    /\ driven = "alva"
    /\ ~alva.alva
    /\ alva' = AlvaInitialize(alva, ok)
    /\ out' = <<>>
    /\ last' = Did("initialize", "alva", IF ok THEN "ok" ELSE "error", alva)
    /\ UNCHANGED <<driven, marker, videoDims, hist, mgrVars>>

LAlvaStart ==
    /\ driven = "alva"
    /\ alva.isRunning \/ alva.starts < MaxStarts
    /\ alva' = AlvaStart(alva, TRUE)
    /\ out' = <<>>
    /\ last' = Did("start", "alva", "call", alva)
    /\ hist' = [hist EXCEPT !.stopped = @ \ {"alva"}]
    /\ UNCHANGED <<driven, marker, videoDims, mgrVars>>

LAlvaStop ==
    /\ driven = "alva"
    /\ alva' = AlvaStop(alva)
    /\ out' = <<>>
    /\ last' = Did("stop", "alva", "call", alva)
    /\ hist' = [hist EXCEPT !.stopped = @ \cup {"alva"}]
    /\ UNCHANGED <<driven, marker, videoDims, mgrVars>>

\* the video's loadedmetadata event
LoadedMetadata ==
    /\ ~videoDims
    /\ sink' = <<>>
    /\ tasks < MaxTasks
    /\ tasks' = IF driven = "manager" THEN tasks + 1 ELSE tasks
    /\ videoDims' = TRUE
    /\ out' = <<>>
    /\ last' = Did("loadedmetadata", "video", "event", alva)
    /\ UNCHANGED <<driven, alva, marker, hist, config, trackers, gps, image, video,
                   currentPose, pending, now, calls, fusion, adaptive>>

FrameInputOk(t, in) ==
    in.kind \in {"none", "nonethrow"} => t.consecutiveLostFrames < MaxLost

\* a suspended start() continues
LAlvaStartResumed(in) ==
    /\ driven = "alva"
    /\ MicrotaskReady
    /\ FrameInputOk(alva, in)
    /\ LET r == AlvaStartResumed(alva, in) IN
         /\ alva' = r.t
         /\ out' = Emit("alva", r.out)
         /\ hist' = HistAfterFrame("alva", r, in)
    /\ last' = Did("resume", "alva", in.kind, [alva EXCEPT !.lastPose = Null])
    /\ UNCHANGED <<driven, marker, videoDims, mgrVars>>

LAlvaFrameTimer(in) ==
    /\ driven = "alva"
    /\ ~MicrotaskReady
    /\ FrameInputOk(alva, in)
    /\ \E t \in FrameFired(alva) :
         LET r == AlvaProcessFrame(t, in) IN
           /\ alva' = r.t
           /\ out' = Emit("alva", r.out)
           /\ hist' = HistAfterFrame("alva", r, in)
    /\ last' = Did("frame", "alva", in.kind, alva)
    /\ UNCHANGED <<driven, marker, videoDims, mgrVars>>

LAlvaPoseTimer ==
    /\ driven = "alva"
    /\ ~MicrotaskReady
    /\ \E t \in PoseFired(alva) :
         LET r == AlvaPoseTimeoutFired(t) IN
           /\ alva' = r.t
           /\ out' = Emit("alva", r.out)
    /\ hist' = [hist EXCEPT !.timedOut = @ \cup {"alva"}]
    /\ last' = Did("posetimer", "alva", "fire", alva)
    /\ UNCHANGED <<driven, marker, videoDims, mgrVars>>

\* ----------------------------------------------- bare ImageTracker harness
LMarkerInitialize(ok) ==
    /\ driven = "marker"
    /\ ~marker.isInitialized
    /\ marker' = MarkerInitialize(marker, ok)
    /\ out' = <<>>
    /\ last' = Did("initialize", "marker", IF ok THEN "ok" ELSE "error", marker)
    /\ UNCHANGED <<driven, alva, videoDims, hist, mgrVars>>

LMarkerStart(in) ==
    /\ driven = "marker"
    /\ FrameInputOk(marker, in)
    /\ LET r == MarkerStart(marker, in) IN
         /\ marker' = r.t
         /\ out' = Emit("marker", r.out)
         /\ hist' = [HistAfterFrame("marker", r, in) EXCEPT !.stopped = @ \ {"marker"}]
    /\ last' = Did("start", "marker", in.kind, [marker EXCEPT !.lastPose = Null])
    /\ UNCHANGED <<driven, alva, videoDims, mgrVars>>

LMarkerStop ==
    /\ driven = "marker"
    /\ marker' = MarkerStop(marker)
    /\ out' = <<>>
    /\ last' = Did("stop", "marker", "call", marker)
    /\ hist' = [hist EXCEPT !.stopped = @ \cup {"marker"}]
    /\ UNCHANGED <<driven, alva, videoDims, mgrVars>>

LMarkerDispose ==
    /\ driven = "marker"
    /\ marker.isInitialized
    /\ marker' = MarkerDispose(marker)
    /\ out' = <<>>
    /\ last' = Did("dispose", "marker", "call", marker)
    /\ hist' = [hist EXCEPT !.stopped = @ \cup {"marker"}]
    /\ UNCHANGED <<driven, alva, videoDims, mgrVars>>

LMarkerFrameTimer(in) ==
    /\ driven = "marker"
    /\ FrameInputOk(marker, in)
    /\ \E t \in FrameFired(marker) :
         LET r == MarkerProcessFrame(t, in) IN
           /\ marker' = r.t
           /\ out' = Emit("marker", r.out)
           /\ hist' = HistAfterFrame("marker", r, in)
    /\ last' = Did("frame", "marker", in.kind, marker)
    /\ UNCHANGED <<driven, alva, videoDims, mgrVars>>

LMarkerPoseTimer ==
    /\ driven = "marker"
    /\ \E t \in PoseFired(marker) :
         LET r == MarkerPoseTimeoutFired(t) IN
           /\ marker' = r.t
           /\ out' = Emit("marker", r.out)
    /\ hist' = [hist EXCEPT !.timedOut = @ \cup {"marker"}]
    /\ last' = Did("posetimer", "marker", "fire", marker)
    /\ UNCHANGED <<driven, alva, videoDims, mgrVars>>

\* -------------------------------------------------- bare GPSTracker harness
LGpsStart ==
    /\ driven = "gps"
    /\ gps' = GpsStart(gps)
    /\ out' = <<>>
    /\ last' = [Did("start", "gps", "call", AlvaNew) EXCEPT !.preRunning = gps.isRunning]
    /\ UNCHANGED <<driven, alva, marker, videoDims, hist, config, trackers, image,
                   video, currentPose, pending, sink, now, tasks, calls, fusion, adaptive>>

LGpsStop ==
    /\ driven = "gps"
    /\ gps' = GpsStop(gps)
    /\ out' = <<>>
    /\ last' = [Did("stop", "gps", "call", AlvaNew) EXCEPT !.preRunning = gps.isRunning]
    /\ UNCHANGED <<driven, alva, marker, videoDims, hist, config, trackers, image,
                   video, currentPose, pending, sink, now, tasks, calls, fusion, adaptive>>

\* the geolocation feed reports a position, dt ms after the previous event
LGpsPosition(position, dt) ==
    /\ driven = "gps"
    /\ gps.watches > 0
    /\ now + dt <= MaxGpsClock
    /\ now' = now + dt
    /\ LET r == GpsHandlePositionUpdate(gps, position, now + dt) IN
         /\ gps' = r.t
         /\ out' = Emit("gps", r.out)
    /\ last' = [Did("position", "gps", "event", AlvaNew) EXCEPT !.preRunning = gps.isRunning]
    /\ UNCHANGED <<driven, alva, marker, videoDims, hist, config, trackers, image,
                   video, currentPose, pending, sink, tasks, calls, fusion, adaptive>>

\* the geolocation feed reports an error
LGpsError ==
    /\ driven = "gps"
    /\ gps.watches > 0
    /\ LET r == GpsHandleError(gps) IN
         /\ gps' = r.t
         /\ out' = Emit("gps", r.out)
    /\ last' = [Did("error", "gps", "event", AlvaNew) EXCEPT !.preRunning = gps.isRunning]
    /\ UNCHANGED <<driven, alva, marker, videoDims, hist, config, trackers, image,
                   video, currentPose, pending, sink, now, tasks, calls, fusion, adaptive>>

LoopInit ==
    /\ driven \in {"alva", "marker", "gps"}
    /\ alva = AlvaNew
    /\ marker = MarkerNew
    /\ videoDims \in BOOLEAN
    /\ out = <<>>
    /\ last = Did("new", driven, "call", AlvaNew)
    /\ hist = [stopped |-> {}, timedOut |-> {}, stopOwed |-> {},
               built |-> [s \in ManagerSources |-> 0]]
    /\ config = [s \in ManagerSources |-> FALSE]
    /\ trackers = [s \in ManagerSources |-> FALSE]
    /\ gps = GpsNew
    /\ image = ImageNew
    /\ video = FALSE
    /\ currentPose = Null
    /\ pending = <<>>
    /\ sink = <<>>
    /\ now = updateInterval
    /\ tasks = 0
    /\ calls = 0
    /\ fusion = FusionNew
    /\ adaptive = AdaptiveNew

LoopNext ==
    \/ \E ok \in BOOLEAN : LAlvaInitialize(ok)
    \/ LAlvaStart
    \/ LAlvaStop
    \/ LoadedMetadata
    \/ \E in \in AlvaInputs : LAlvaStartResumed(in)
    \/ \E in \in AlvaInputs : LAlvaFrameTimer(in)
    \/ LAlvaPoseTimer
    \/ \E ok \in BOOLEAN : LMarkerInitialize(ok)
    \/ \E in \in MarkerInputs : LMarkerStart(in)
    \/ LMarkerStop
    \/ LMarkerDispose
    \/ \E in \in MarkerInputs : LMarkerFrameTimer(in)
    \/ LMarkerPoseTimer
    \/ LGpsStart
    \/ LGpsStop
    \/ \E position \in GpsFixes, dt \in {0, 400, updateInterval} :
          LGpsPosition(position, dt)
    \/ LGpsError

LoopSpec == LoopInit /\ [][LoopNext]_vars

\* ------------------------------------------------- TrackerManager system
\* the state as one record, for the operators of the manager
World ==
    [config |-> config, trackers |-> trackers, alva |-> alva, gps |-> gps,
     image |-> image, video |-> video, currentPose |-> currentPose,
     pending |-> pending, hist |-> hist,
     pre |-> {s \in {"alva", "image"} : Truthy(config, s)},
     out |-> <<>>, sink |-> <<>>, starts |-> {}, stops |-> {}]

Commit(w) ==
    /\ config' = w.config
    /\ trackers' = w.trackers
    /\ alva' = w.alva
    /\ gps' = w.gps
    /\ image' = w.image
    /\ video' = w.video
    /\ currentPose' = w.currentPose
    /\ pending' = w.pending
    /\ hist' = w.hist
    /\ out' = w.out
    /\ sink' = w.sink
    /\ tasks < MaxTasks
    /\ tasks' = tasks + 1
    /\ UNCHANGED <<driven, marker, fusion, adaptive>>

WithinBounds(w) ==
    /\ w.alva.starts <= MaxStartsManaged
    /\ w.image.timers <= MaxImageTimers

\* the frame input is only varied in a task that runs an image frame
InputUsed(w, in) == in.kind = "ok" \/ w.image.timers # image.timers

\* is the source producing, or about to
RunState(w, s) ==
    IF s = "alva" THEN <<w.alva.isRunning, w.alva.starts>>
    ELSE IF s = "gps" THEN <<w.gps.isRunning, 0>>
    ELSE <<w.image.isRunning, 0>>

\* the sources whose part of updateConfig, run now, would still change them
Unapplied(w, in) ==
    {s \in {"gps", "image"} :
        \/ RunState(UpdateRest(w, in), s) # RunState(w, s)
        \/ UpdateRest(w, in).trackers[s] # w.trackers[s]}

Named(u) == IF u.hasPose THEN DOMAIN u.pose ELSE {}

MDid(op, src, kind, w) ==
    [Did(op, src, kind, AlvaNew) EXCEPT !.starts = w.starts, !.stops = w.stops]

\* updateConfig(u) is called
MUpdateConfig(u, in) ==
    /\ driven = "manager"
    /\ LET w == UpdateConfig(World, u, in) IN
         /\ WithinBounds(w)
         /\ InputUsed(w, in)
         /\ Commit(w)
         /\ last' = [MDid("updateConfig", "manager",
                          IF DOMAIN w.pending = DOMAIN pending THEN "done"
                          ELSE "suspended", w)
                     EXCEPT !.drift = {s \in ManagerSources \ Named(u) :
                                         Truthy(w.config, s) # Truthy(config, s)},
                            !.meddled = {s \in ManagerSources \ Named(u) :
                                         RunState(w, s) # RunState(World, s)}]
    /\ UNCHANGED <<videoDims, now>>
    /\ calls < MaxCalls
    /\ calls' = calls + 1

\* alva.initialize() settles and the suspended updateConfig goes on
MAlvaInitSettled(ok, in) ==
    /\ driven = "manager"
    /\ ~MicrotaskReady
    /\ "alva" \in DOMAIN pending
    /\ LET w == UpdateConfigAfterAlva(World, ok, in) IN
         /\ WithinBounds(w)
         /\ InputUsed(w, in)
         /\ Commit(w)
         /\ last' = [MDid("settled", "alva",
                          IF ~ok THEN "error"
                          ELSE IF "image" \in DOMAIN w.pending /\ "image" \notin DOMAIN pending
                          THEN "suspended" ELSE "done", w)
                     EXCEPT !.pre = pending["alva"],
                            !.unapplied = IF ok THEN {} ELSE Unapplied(w, in)]
    /\ UNCHANGED <<videoDims, now, calls>>

\* image.initialize() settles and the suspended updateConfig goes on
MImageInitSettled(ok, in) ==
    /\ driven = "manager"
    /\ ~MicrotaskReady
    /\ "image" \in DOMAIN pending
    /\ LET w == UpdateConfigAfterImage(World, ok, in) IN
         /\ WithinBounds(w)
         /\ InputUsed(w, in)
         /\ Commit(w)
         /\ last' = [MDid("settled", "image", IF ok THEN "done" ELSE "error", w)
                     EXCEPT !.pre = pending["image"]]
    /\ UNCHANGED <<videoDims, now, calls>>

\* initialize(), awaited right after construction: nothing to do
MInitialize ==
    /\ driven = "manager"
    /\ last.op = "new"
    /\ Commit(World)
    /\ last' = MDid("initialize", "manager", "call", World)
    /\ UNCHANGED <<videoDims, now, calls>>

\* variant of MStart that starts the GPS tracker
MStart_StartsGps ==
    /\ driven = "manager"
    /\ ~video
    /\ Commit([World EXCEPT !.video = TRUE, !.gps = GpsStart(@)])
    /\ last' = MDid("start", "manager", "call", World)
    /\ UNCHANGED <<videoDims, now, calls>>

\* start(video)
MStart ==
    /\ driven = "manager"
    /\ ~video
    /\ Commit([World EXCEPT !.video = TRUE])
    /\ last' = MDid("start", "manager", "call", World)
    /\ UNCHANGED <<videoDims, now, calls>>

MStop ==
    /\ driven = "manager"
    /\ LET w == ManagerStop(World) IN
         /\ Commit(w)
         /\ last' = MDid("stop", "manager", "call", w)
    /\ UNCHANGED <<videoDims, now, calls>>

MDispose ==
    /\ driven = "manager"
    /\ DOMAIN pending = {}
    /\ LET w == ManagerDispose(World) IN
         /\ Commit(w)
         /\ last' = MDid("dispose", "manager",
                         IF trackers.alva \/ trackers.gps THEN "error" ELSE "done", w)
    /\ UNCHANGED <<videoDims, now, calls>>

MLoadedMetadata == driven = "manager" /\ LoadedMetadata

ManagedInputOk(t, in) ==
    /\ in.kind = "none" => t.consecutiveLostFrames < MaxLostManaged
    /\ in.kind = "pose" => in.raw = RawA
    /\ in.kind \in {"pose", "none", "throw"}

MAlvaStartResumed(in) ==
    /\ driven = "manager"
    /\ MicrotaskReady
    /\ ManagedInputOk(alva, in)
    /\ LET r == AlvaStartResumed(alva, in) IN
         Commit(OnPoseUpdate([World EXCEPT !.alva = r.t], "alva", r.out))
    /\ last' = Did("resume", "alva", in.kind, AlvaNew)
    /\ UNCHANGED <<videoDims, now, calls>>

MAlvaFrameTimer(in) ==
    /\ driven = "manager"
    /\ ~MicrotaskReady
    /\ ManagedInputOk(alva, in)
    /\ \E t \in FrameFired(alva) :
         LET r == AlvaProcessFrame(t, in) IN
           Commit(OnPoseUpdate([World EXCEPT !.alva = r.t], "alva", r.out))
    /\ last' = Did("frame", "alva", in.kind, AlvaNew)
    /\ UNCHANGED <<videoDims, now, calls>>

MAlvaPoseTimer ==
    /\ driven = "manager"
    /\ ~MicrotaskReady
    /\ \E t \in PoseFired(alva) :
         LET r == AlvaPoseTimeoutFired(t) IN
           Commit(OnPoseUpdate([World EXCEPT !.alva = r.t], "alva", r.out))
    /\ last' = Did("posetimer", "alva", "fire", AlvaNew)
    /\ UNCHANGED <<videoDims, now, calls>>

\* the geolocation feed delivers a position; dt ms have passed on the clock
MGpsPosition(position, dt) ==
    /\ driven = "manager"
    /\ ~MicrotaskReady
    /\ gps.watches > 0
    /\ now + dt <= MaxClock
    /\ now' = now + dt
    /\ LET r == GpsHandlePositionUpdate(gps, position, now + dt) IN
         Commit(OnPoseUpdate([World EXCEPT !.gps = r.t], "gps", r.out))
    /\ last' = Did("position", "gps", "event", AlvaNew)
    /\ UNCHANGED <<videoDims, calls>>

\* the geolocation feed reports an error
MGpsError ==
    /\ driven = "manager"
    /\ ~MicrotaskReady
    /\ gps.watches > 0
    /\ LET r == GpsHandleError(gps) IN
         Commit(OnPoseUpdate([World EXCEPT !.gps = r.t], "gps", r.out))
    /\ last' = Did("error", "gps", "event", AlvaNew)
    /\ UNCHANGED <<videoDims, now, calls>>

MImageFrameTimer(in) ==
    /\ driven = "manager"
    /\ ~MicrotaskReady
    /\ image.timers > 0
    /\ LET r == ImageProcessFrame([image EXCEPT !.timers = @ - 1], in) IN
         Commit(OnPoseUpdate([World EXCEPT !.image = r.t], "image", r.out))
    /\ last' = Did("frame", "image", in.kind, AlvaNew)
    /\ UNCHANGED <<videoDims, now, calls>>

\* window events markerFound / markerLost for the tracker's camera
MMarkerEvent(found) ==
    /\ driven = "manager"
    /\ ~MicrotaskReady
    /\ image.listeners /\ image.arToolkitContext
    /\ image.isMarkerVisible # found
    /\ LET r == IF found THEN ImageMarkerFound(image) ELSE ImageMarkerLost(image) IN
         Commit(OnPoseUpdate([World EXCEPT !.image = r.t], "image", r.out))
    /\ last' = Did(IF found THEN "markerFound" ELSE "markerLost", "image", "event", AlvaNew)
    /\ UNCHANGED <<videoDims, now, calls>>

Init ==
    /\ driven = "manager"
    /\ alva = AlvaNew
    /\ marker = MarkerNew
    /\ videoDims \in BOOLEAN
    /\ out = <<>>
    /\ last = Did("new", "manager", "call", AlvaNew)
    /\ hist = [stopped |-> {}, timedOut |-> {}, stopOwed |-> {},
               built |-> [s \in ManagerSources |-> 0]]
    /\ config = [s \in ManagerSources |-> FALSE]
    /\ trackers = [s \in ManagerSources |-> FALSE]
    /\ gps = GpsNew
    /\ image = ImageNew
    /\ video = FALSE
    /\ currentPose = Null
    /\ pending = <<>>
    /\ sink = <<>>
    /\ now = updateInterval
    /\ tasks = 0
    /\ calls = 0
    /\ fusion = FusionNew
    /\ adaptive = AdaptiveNew

Next ==
    \/ \E u \in Updates, in \in ImageInputs : MUpdateConfig(u, in)
    \/ \E ok \in BOOLEAN, in \in ImageInputs : MAlvaInitSettled(ok, in)
    \/ \E ok \in BOOLEAN, in \in ImageInputs : MImageInitSettled(ok, in)
    \/ MInitialize
    \/ MStart
    \/ MStop
    \/ MDispose
    \/ MLoadedMetadata
    \/ \E in \in AlvaInputs : MAlvaStartResumed(in)
    \/ \E in \in AlvaInputs : MAlvaFrameTimer(in)
    \/ MAlvaPoseTimer
    \/ \E position \in GpsFixes, dt \in {0, updateInterval} :
          MGpsPosition(position, dt)
    \/ MGpsError
    \/ \E in \in ImageInputs : MImageFrameTimer(in)
    \/ \E found \in BOOLEAN : MMarkerEvent(found)

Spec == Init /\ [][Next]_vars

\* --------------------------------------- smoothing TrackerManager harness
\* what a source hands to its callback: a pose with position and
\* quaternion, the array AlvaTracker reports, the pose GPSTracker reports,
\* or null
FusionInputs(src) ==
    LET Positions == {Vec(<<0, 0, 0>>), Vec(<<10, -20, 5>>)}
        Quaternions ==
            {Vec(<<0, 0, 0, 1>>), Vec(<<0, 0, 0, -1>>),
             [v |-> <<0, 3, 0, 4>>, d |-> 5], [v |-> <<0, -3, 0, -4>>, d |-> 5]}
    IN
    {Null}
    \cup (IF src = "alva"
          THEN {[position |-> p, quaternion |-> q, orientation |-> <<0, 0, 0>>] :
                    p \in Positions, q \in Quaternions}
               \cup {convertPoseToThreeJS(RawA)}
          ELSE {[GpsPose(fix) EXCEPT !.position = Vec(@)] : fix \in GpsFixes})

\* the callback the manager gave to the tracker of src is invoked
FusionCallback(src, pose) ==
    /\ driven = "fusion"
    /\ (Truthy(config, src) /\ pose # Null /\ ~fusion.isFirstPose)
          => fusion.blends < MaxBlends
    /\ LET r == IF Truthy(config, src) THEN FusionHandlePose(fusion, pose, src)
                ELSE [f |-> fusion, sink |-> <<>>]
       IN /\ fusion' = r.f
          /\ sink' = r.sink
    /\ out' = Emit(src, <<pose>>)
    /\ last' = [engine |-> fusion, given |-> pose]
                 @@ Did("callback", src, IF pose = Null THEN "null" ELSE "pose", AlvaNew)
    /\ UNCHANGED <<driven, alva, marker, videoDims, hist, config, trackers, gps,
                   image, video, currentPose, pending, now, tasks, calls, adaptive>>

FusionInit ==
    /\ driven = "fusion"
    /\ alva = AlvaNew
    /\ marker = MarkerNew
    /\ videoDims = FALSE
    /\ out = <<>>
    /\ last = [engine |-> FusionNew, given |-> Null]
                @@ Did("new", "manager", "call", AlvaNew)
    /\ hist = [stopped |-> {}, timedOut |-> {}, stopOwed |-> {},
               built |-> [s \in ManagerSources |-> 0]]
    /\ config \in [{"alva", "gps"} -> BOOLEAN]
    /\ trackers = [s \in ManagerSources |-> FALSE]
    /\ gps = GpsNew
    /\ image = ImageNew
    /\ video = FALSE
    /\ currentPose = Null
    /\ pending = <<>>
    /\ sink = <<>>
    /\ now = updateInterval
    /\ tasks = 0
    /\ calls = 0
    /\ fusion = FusionNew
    /\ adaptive = AdaptiveNew

FusionNext ==
    \E src \in {"alva", "gps"} : \E pose \in FusionInputs(src) :
        FusionCallback(src, pose)

FusionSpec == FusionInit /\ [][FusionNext]_vars

\* ================================== harness: the adaptive AlvaTracker alone
\* One run of the tracker: initialize() first or never, start(video) once,
\* frames driven by the frame timer, stop() at any time.  `now` is
\* performance.now(), the page's age in ms.
AdaptiveRest == <<driven, alva, marker, videoDims, hist, config, trackers, gps,
                  image, video, currentPose, pending, sink, tasks, calls, fusion>>

AdaptiveDid(op, kind, est) ==
    [was |-> adaptive, est |-> est] @@ Did(op, "adaptive", kind, AlvaNew)

AdaptiveInputs ==
    {[kind |-> "pose", raw |-> RawA]}
    \cup {[kind |-> k, raw |-> RawA] : k \in {"none", "notready", "throw"}}

\* only the first frame of the run may end before the estimator is asked
AdaptiveInputOk(in) ==
    in.kind \in {"notready", "throw"} => last.op = "start"

AInitialize(isMobile, memory, dpr, ok) ==
    /\ driven = "adaptive"
    /\ last.op = "new"
    /\ adaptive' = [adaptive EXCEPT
           !.scaleFactor = determineOptimalScale(isMobile, memory, dpr),
           !.alva = IF ok THEN <<640, 480>> ELSE Null]
    /\ out' = <<>>
    /\ last' = AdaptiveDid("initialize", IF ok THEN "done" ELSE "throw", <<>>)
    /\ UNCHANGED <<now, AdaptiveRest>>

\* start(video) up to its await; period: what the host makes of the frame
\* interval in this run
AStart(period) ==
    /\ driven = "adaptive"
    /\ ~adaptive.video
    /\ adaptive' = IF adaptive.isRunning THEN adaptive
                   ELSE [adaptive EXCEPT !.video = TRUE, !.starts = @ + 1,
                                         !.period = period]
    /\ out' = <<>>
    /\ last' = AdaptiveDid("start", "call", <<>>)
    /\ UNCHANGED <<now, AdaptiveRest>>

\* start(video) from the await on
AStartResumed(in) ==
    /\ driven = "adaptive"
    /\ adaptive.starts > 0
    /\ AdaptiveInputOk(in)
    /\ LET t == [updateProcessingDimensions(adaptive) EXCEPT
                    !.starts = @ - 1, !.isRunning = TRUE, !.frameCount = 0,
                    !.lastFPSUpdate = 0, !.processingBacklog = 0,
                    !.startedAt = now]
           r == AdaptiveProcessFrame(t, in, now)
       IN /\ adaptive' = r.t
          /\ out' = Emit("alva", r.out)
          /\ last' = AdaptiveDid("resume", in.kind, r.est)
    /\ UNCHANGED <<now, AdaptiveRest>>

AStop ==
    /\ driven = "adaptive"
    /\ adaptive.isRunning
    /\ adaptive' = [adaptive EXCEPT !.isRunning = FALSE,
                       !.frameTimeout = IF @ # "unset" THEN clearTimeout(@) ELSE @]
    /\ out' = <<>>
    /\ last' = AdaptiveDid("stop", "call", <<>>)
    /\ UNCHANGED <<now, AdaptiveRest>>

\* the frame timer fires, one period after the frame that set it
AFrameTimer(in) ==
    /\ driven = "adaptive"
    /\ adaptive.starts = 0
    /\ now + adaptive.period <= MaxAdaptiveClock
    /\ AdaptiveInputOk(in)
    /\ now' = now + adaptive.period
    /\ \E t \in FrameFired(adaptive) :
         LET r == AdaptiveProcessFrame(t, in, now') IN
           /\ adaptive' = r.t
           /\ out' = Emit("alva", r.out)
           /\ last' = AdaptiveDid("frame", in.kind, r.est)
    /\ UNCHANGED AdaptiveRest

AdaptiveInit ==
    /\ driven = "adaptive"
    /\ alva = AlvaNew
    /\ marker = MarkerNew
    /\ videoDims = FALSE
    /\ out = <<>>
    /\ hist = [stopped |-> {}, timedOut |-> {}, stopOwed |-> {},
               built |-> [s \in ManagerSources |-> 0]]
    /\ config = [s \in ManagerSources |-> FALSE]
    /\ trackers = [s \in ManagerSources |-> FALSE]
    /\ gps = GpsNew
    /\ image = ImageNew
    /\ video = FALSE
    /\ currentPose = Null
    /\ pending = <<>>
    /\ sink = <<>>
    /\ now \in {0, 1500}
    /\ tasks = 0
    /\ calls = 0
    /\ fusion = FusionNew
    /\ \E display \in {<<0, 0>>, <<320, 240>>} :
         adaptive = [AdaptiveNew EXCEPT !.display = display]
    /\ last = [was |-> adaptive, est |-> <<>>]
                @@ Did("new", "adaptive", "call", AlvaNew)

AdaptiveNext ==
    \/ \E isMobile \in BOOLEAN, memory \in {0, 1000, 3000, 8000},
          dpr \in {1, 2}, ok \in BOOLEAN :
            AInitialize(isMobile, memory, dpr, ok)
    \/ \E period \in {20, 34, 40, 67} : AStart(period)
    \/ \E in \in AdaptiveInputs : AStartResumed(in)
    \/ AStop
    \/ \E in \in AdaptiveInputs : AFrameTimer(in)

AdaptiveSpec == AdaptiveInit /\ [][AdaptiveNext]_vars

\* ============================ backlog/recovery loop of the visual source
\* The adaptive revision declares processingBacklog and maxBacklog = 3 and
\* resets the backlog in start(); the loop that counts it is the one of the
\* specification's algorithm, step 4.  A frame that finds nothing adds one to the
\* backlog, a frame that finds a pose clears it.  recoveryDuration (ms) and
\* minRecoveryFrames are the "fixed duration" and the "minimum number of
\* frames".

\* variant of RecoveryProcessFrame that keeps the backlog on entering recovery
RecoveryProcessFrame_KeepsBacklog(t, found, currentTime) ==
    IF t.inRecovery
    THEN LET n == IF found THEN t.recoveredFrames + 1 ELSE t.recoveredFrames
         IN [t EXCEPT !.recoveredFrames = n,
                      !.inRecovery = ~(currentTime - t.recoveryStart >= t.recoveryDuration
                                       \/ n >= t.minRecoveryFrames)]
    ELSE LET b == IF found THEN 0 ELSE t.processingBacklog + 1
         IN IF b > t.maxBacklog
            THEN [t EXCEPT !.inRecovery = TRUE, !.processingBacklog = b,
                           !.recoveryStart = currentTime, !.recoveredFrames = 0]
            ELSE [t EXCEPT !.processingBacklog = b]

RecoveryProcessFrame(t, found, currentTime) ==
    IF t.inRecovery
    THEN LET n == IF found THEN t.recoveredFrames + 1 ELSE t.recoveredFrames
         IN [t EXCEPT !.recoveredFrames = n,
                      !.inRecovery = ~(currentTime - t.recoveryStart >= t.recoveryDuration
                                       \/ n >= t.minRecoveryFrames)]
    ELSE LET b == IF found THEN 0 ELSE t.processingBacklog + 1
         IN IF b > t.maxBacklog
            THEN [t EXCEPT !.inRecovery = TRUE, !.processingBacklog = 0,
                           !.recoveryStart = currentTime, !.recoveredFrames = 0]
            ELSE [t EXCEPT !.processingBacklog = b]

\* one frame of the running loop, dt ms after the one before
RFrame(found, dt) ==
    /\ driven = "recovery"
    /\ now + dt <= MaxRecoveryClock
    /\ now' = now + dt
    /\ adaptive' = RecoveryProcessFrame(adaptive, found, now')
    /\ out' = <<>>
    /\ last' = AdaptiveDid("frame", IF found THEN "pose" ELSE "none", <<>>)
    /\ UNCHANGED AdaptiveRest

RecoveryInit ==
    /\ driven = "recovery"
    /\ alva = AlvaNew
    /\ marker = MarkerNew
    /\ videoDims = FALSE
    /\ out = <<>>
    /\ hist = [stopped |-> {}, timedOut |-> {}, stopOwed |-> {},
               built |-> [s \in ManagerSources |-> 0]]
    /\ config = [s \in ManagerSources |-> FALSE]
    /\ trackers = [s \in ManagerSources |-> FALSE]
    /\ gps = GpsNew
    /\ image = ImageNew
    /\ video = FALSE
    /\ currentPose = Null
    /\ pending = <<>>
    /\ sink = <<>>
    /\ now = 0
    /\ tasks = 0
    /\ calls = 0
    /\ fusion = FusionNew
    /\ adaptive = [inRecovery |-> FALSE, recoveryStart |-> 0, recoveredFrames |-> 0,
                   recoveryDuration |-> 100, minRecoveryFrames |-> 2]
                    @@ [AdaptiveNew EXCEPT !.isRunning = TRUE, !.video = TRUE,
                                           !.ctx = TRUE]
    /\ last = [was |-> adaptive, est |-> <<>>]
                @@ Did("new", "adaptive", "call", AlvaNew)

RecoveryNext == \E found \in BOOLEAN, dt \in {30, 60} : RFrame(found, dt)

RecoverySpec == RecoveryInit /\ [][RecoveryNext]_vars

Estimated == last.op \in {"resume", "frame"} /\ last.est # <<>>

\* ... and completed a measurement window
Measured == Estimated /\ adaptive.frameCount = 0

\* the scale and the processing dimensions the last task started with, a
\* start() counted from its call to updateProcessingDimensions
ScaleKept ==
    /\ adaptive.scaleFactor = last.was.scaleFactor
    /\ last.op = "frame" =>
         /\ adaptive.processedWidth = last.was.processedWidth
         /\ adaptive.processedHeight = last.was.processedHeight

\* C23: the scale factor is within [0.5, 1.0] in every reachable state,
\* after determineOptimalScale and after any sequence of FPS updates
C23_ScaleInRange == adaptive.scaleFactor \in 500..1000

\* a measurement lowered a scale less than one step above the floor
C23_Witness ==
    /\ Measured
    /\ adaptive.currentFPS < 30
    /\ last.was.scaleFactor \in 501..599
    /\ adaptive.scaleFactor = 500

\* C24: one FPS measurement changes the scale by at most one step: 15 FPS
\* lowers it by exactly 0.1 but not below 0.5, 50 FPS with a scale below 1.0
\* raises it by exactly 0.1 but not above 1.0, and a task that completes no
\* measurement window leaves the scale unchanged
C24_OneStep ==
    LET was == last.was.scaleFactor
        is == adaptive.scaleFactor
    IN /\ Abs(is - was) <= 100 \/ last.op = "initialize"
       /\ (Measured /\ adaptive.currentFPS = 15)
             => is = (IF was - 100 < 500 THEN 500 ELSE was - 100)
       /\ (Measured /\ adaptive.currentFPS = 50 /\ was < 1000)
             => is = (IF was + 100 > 1000 THEN 1000 ELSE was + 100)
       /\ (last.op \in {"resume", "frame", "start", "stop"} /\ ~Measured)
             => is = was

C24_Witness ==
    /\ Measured
    /\ adaptive.currentFPS = 15
    /\ last.was.scaleFactor = 750
    /\ adaptive.scaleFactor = 650

\* C25 as stated: a measurement window with 20 FPS or more, and not above
\* the high threshold, leaves the processing resolution unchanged
C25_LowThreshold20 ==
    (Measured /\ adaptive.currentFPS \in 20..45) => ScaleKept

\* C25 as the code has it: the low threshold is 30.  A window with 30 to 45
\* FPS leaves the processing resolution unchanged, one below 30 FPS lowers
\* the scale by a step unless it is at the floor
C25_LowThreshold30 ==
    /\ (Measured /\ adaptive.currentFPS \in 30..45) => ScaleKept
    /\ (Measured /\ adaptive.currentFPS < 30 /\ last.was.scaleFactor >= 600)
          => adaptive.scaleFactor = last.was.scaleFactor - 100

C25_Witness ==
    /\ Measured
    /\ last.op = "frame"
    /\ adaptive.currentFPS = 30
    /\ adaptive.scaleFactor = last.was.scaleFactor
    /\ adaptive.processedWidth = last.was.processedWidth

\* C26: the measured FPS counts the frames of a window of at least 1000 ms
\* of the current run: no frame processed less than 1000 ms after start()
\* completes a measurement or changes the scale
C26_WindowOfThisRun ==
    (Estimated /\ now - adaptive.startedAt < 1000)
        => ~Measured /\ adaptive.scaleFactor = last.was.scaleFactor

\* C27: at every estimate call the frame handed to the estimator has the
\* dimensions the estimator was last initialized with
C27_EstimatorFitsFrame == Estimated => last.est = adaptive.alva

\* ================================================================ claims
HolderSources == {"alva", "marker"}

Tracker(src) == IF src = "marker" THEN marker ELSE alva

\* the last task ran a frame through the found / not-found branches
RanFrame(kind) ==
    /\ last.op \in {"frame", "resume", "start"}
    /\ last.src \in HolderSources
    /\ last.kind = kind
    /\ Len(out) = 1

\* the last task was a no-pose frame of a holder that had a last-good pose
LostFrameHeld == RanFrame("none") /\ last.preHeld # Null

\* ----------------------------------------------------------- pose fusion
\* the last task was a callback of an enabled source into the smoothing
\* manager
Reported(kind) ==
    /\ last.op = "callback"
    /\ last.kind = kind
    /\ Truthy(config, last.src)

\* C11 (as claimed): when a source whose flag is true reports null to the
\* manager, the consumer callback is invoked with null.
C11_NullForwarded ==
    \A i \in DOMAIN out :
        (out[i].pose = Null /\ Truthy(config, out[i].src)) =>
            \E j \in DOMAIN sink : sink[j] = Null

\* C12: a non-null pose that arrives while isFirstPose is set (after
\* construction or after a null report) is passed on once with the position
\* and the quaternion it carries, whatever smoothed state was left; and a null
\* report of an enabled source sets isFirstPose.
C12_FirstPoseDirect ==
    /\ (Reported("pose") /\ last.engine.isFirstPose) =>
          /\ Len(sink) = 1
          /\ \A k \in {"position", "quaternion"} \cap DOMAIN last.given :
                sink[1][k] = last.given[k]
          /\ fusion.blends = 0
    /\ Reported("null") => fusion.isFirstPose
    /\ last.op = "new" => fusion.isFirstPose

C12_Witness ==
    /\ Reported("pose")
    /\ last.engine.isFirstPose
    /\ last.engine.blends > 0
    /\ {"position", "quaternion"} \subseteq DOMAIN last.given
    /\ last.engine.smoothedPosition # last.given.position
    /\ last.engine.smoothedQuaternion # last.given.quaternion
    /\ sink[1].position = last.given.position

\* C13 (as claimed): after a non-null pose callback of an enabled source the
\* current pose of the smoothing manager carries that source's tag.
C13_TaggedByLatestCallback ==
    Reported("pose") =>
        /\ fusion.currentPose # Null
        /\ fusion.currentPose.source = last.src

\* the last task blended a pose that has both fields into the smoothed state
Blended ==
    /\ Reported("pose")
    /\ ~last.engine.isFirstPose
    /\ {"position", "quaternion"} \subseteq DOMAIN last.given
    /\ IsVec(last.engine.smoothedPosition)
    /\ IsVec(last.engine.smoothedQuaternion)

\* C14: quaternion smoothing takes the shorter arc.  An incoming quaternion
\* that is the exact negation of a unit smoothed quaternion leaves the smoothed
\* quaternion as it was, up to the rounding of normalizeQuaternion on every
\* component and exactly for (0,0,0,1) followed by (0,0,0,-1); and an incoming
\* quaternion and its negation, unless at right angles to the smoothed one,
\* give the same result.
C14_ShorterArc ==
    Blended =>
        LET p == last.engine.smoothedQuaternion
            c == last.given.quaternion
            r == fusion.smoothedQuaternion
        IN /\ (Dot(p.v, p.v) = p.d * p.d /\ c = Neg(p)) =>
                 /\ IsVec(r)
                 /\ \A i \in DOMAIN p.v :
                       Abs(r.v[i] * p.d - p.v[i] * r.d) * QScale < r.d * p.d
                 /\ p = Vec(<<0, 0, 0, 1>>) => r = p
                 /\ sink[1].quaternion = r
           /\ Dot(c.v, p.v) # 0 =>
                 /\ fusion.smoothedQuaternion
                      = normalizeQuaternion(smoothQuaternion(Neg(c), p))
                 /\ Dot(fusion.smoothedQuaternion.v, p.v) > 0

C14_Witness ==
    /\ Blended
    /\ last.engine.smoothedQuaternion = Vec(<<0, 0, 0, 1>>)
    /\ last.given.quaternion = Vec(<<0, 0, 0, -1>>)
    /\ fusion.smoothedQuaternion = Vec(<<0, 0, 0, 1>>)
    /\ sink[1].quaternion = Vec(<<0, 0, 0, 1>>)

\* C15 (as claimed): every non-null pose passed to the consumer has a
\* quaternion whose squared norm is 1, up to the rounding of
\* normalizeQuaternion.
C15_UnitQuaternion ==
    \A i \in DOMAIN sink :
        (driven = "fusion" /\ sink[i] # Null) =>
            LET q == sink[i].quaternion
            IN /\ IsVec(q)
               /\ Abs(Dot(q.v, q.v) - q.d * q.d) * QScale <= 8 * q.d * q.d

\* C16: blending a pose into the smoothed position multiplies the distance to
\* the pose's position by exactly 7/10 (1 - 0.3) on every axis: a smoothed
\* position equal to the pose stays, otherwise it moves toward the pose without
\* reaching or passing it; the pose passed on carries the smoothed position.
C16_DistanceShrinks ==
    (Reported("pose") /\ ~last.engine.isFirstPose
       /\ "position" \in DOMAIN last.given /\ IsVec(last.engine.smoothedPosition)) =>
        LET P == last.given.position
            e == last.engine.smoothedPosition
            s == fusion.smoothedPosition
        IN /\ IsVec(s)
           /\ \A i \in DOMAIN P.v :
                 LET before == e.v[i] * P.d - P.v[i] * e.d
                     after == s.v[i] * P.d - P.v[i] * s.d
                 IN /\ 10 * after * e.d = 7 * before * s.d
                    /\ before = 0 => after = 0
                    /\ before > 0 => (after > 0 /\ after * e.d < before * s.d)
                    /\ before < 0 => (after < 0 /\ after * e.d > before * s.d)
           /\ sink # <<>> => sink[1].position = s

\* the pose (10, -20, 5) fed twice after a first pose at the origin
C16_Witness ==
    /\ Blended
    /\ fusion.blends = 2
    /\ last.given.position = Vec(<<10, -20, 5>>)
    /\ last.engine.smoothedPosition = [v |-> <<6, -12, 3>>, d |-> 2]
    /\ fusion.smoothedPosition = [v |-> <<102, -204, 51>>, d |-> 20]
    /\ sink[1].position = fusion.smoothedPosition

\* ----------------------------------------------------------- frame loops
\* the last task ran processFrame of src past its guard
FramePassed(src) ==
    /\ last.src = src
    /\ last.op \in {"frame", "resume", "start"}
    /\ last.kind \in {"pose", "none", "notready", "throw", "posethrow", "nonethrow"}
    /\ LET t == Tracker(src)
       IN /\ t.isRunning /\ t.video
          /\ IF src = "alva" THEN t.ctx /\ t.alva ELSE t.arToolkitContext

\* C17 (as claimed): a start() that resumes does not process a frame while a
\* frame timer of the same tracker is pending, so no two frames are processed
\* in one interval.
C17_OneFramePerInterval ==
    [][~(/\ FrameTimerPending(alva)
         /\ last'.op = "resume" /\ last'.src = "alva"
         /\ FrameTimerPending(alva'))]_vars

\* C18: a frame that got past the guard of processFrame leaves a frame timer
\* pending, whether it found a pose, found none, found the video not ready,
\* or the estimator, the detector or the pose callback threw.
C18_NextFrameScheduled ==
    \A src \in HolderSources :
        FramePassed(src) => FrameTimerPending(Tracker(src))

C18_Witness ==
    /\ FramePassed("alva")
    /\ last.op = "frame"
    /\ last.kind = "posethrow"
    /\ Len(out) = 1
    /\ alva.frameTimeout = "live"

\* C19 (as claimed): a frame whose estimator or detector throws increments the
\* consecutive-lost counter and emits the held pose or null.
C19_ThrowIsLost ==
    \A src \in HolderSources :
        (FramePassed(src) /\ last.kind = "throw") =>
            /\ Tracker(src).consecutiveLostFrames = last.preLost + 1
            /\ Len(out) = 1

\* C28: in the visual source a pose whose position differs from the last
\* accepted pose by more than the translation threshold is rejected: it is
\* not passed to the pose callback and does not become the last accepted
\* pose.  The repository gives the threshold no value: it is taken as 1, the
\* two estimator poses of the model being 9.9 apart
C28_JumpRejected ==
    LET translationThreshold == 1
        Far(a, b) ==
            LET d(i) == a.matrix[i] - b.matrix[i]
            IN d(13) * d(13) + d(14) * d(14) + d(15) * d(15)
                 > translationThreshold * translationThreshold
    IN (FramePassed("alva") /\ last.kind = "pose" /\ last.preHeld # Null) =>
          /\ alva.lastPose # Null => ~Far(alva.lastPose, last.preHeld)
          /\ \A i \in 1..Len(out) :
                out[i].pose # Null => ~Far(out[i].pose, last.preHeld)

\* C20: start() of a running tracker changes nothing and calls no callback;
\* stop() of a tracker that is not running changes nothing; after stop()
\* another stop() changes nothing.
C20_StartStopIdempotent ==
    [][/\ ((last'.op = "start" /\ last'.preRunning)
            \/ (last'.op = "stop" /\ ~last'.preRunning)) =>
             /\ alva' = alva /\ marker' = marker /\ gps' = gps
             /\ out' = <<>>
       /\ last'.op = "stop" =>
             /\ last'.src = "alva" => ~alva'.isRunning
             /\ last'.src = "marker" => ~marker'.isRunning
             /\ last'.src = "gps" => ~gps'.isRunning
             /\ AlvaStop(alva') = alva'
             /\ MarkerStop(marker') = marker'
             /\ GpsStop(gps') = gps']_vars

C20_Witness ==
    /\ last.op = "start"
    /\ last.src = "gps"
    /\ last.preRunning
    /\ gps.isRunning
    /\ gps.watches = 1

\* ------------------------------------------------------------ GPSTracker
\* C21: a position update that arrives less than updateInterval (1000 ms)
\* after the last accepted one changes nothing and calls no callback; an
\* accepted update calls the callback once with a pose and its clock time,
\* at least 1000 ms after that of the pose before, becomes lastUpdateTime.
C21_Throttle ==
    [][(last'.op = "position" /\ last'.src = "gps") =>
         IF now' - gps.lastUpdateTime < 1000
         THEN gps' = gps /\ out' = <<>>
         ELSE /\ Len(out') = 1
              /\ out'[1].pose # Null
              /\ gps'.lastUpdateTime = now'
              /\ gps'.lastPosition # Null]_vars

\* an update discarded 800 ms after the accepted one, a discarded one between
C21_Witness ==
    /\ last.op = "position"
    /\ gps.lastUpdateTime >= 2 * updateInterval
    /\ now - gps.lastUpdateTime = 800
    /\ out = <<>>

\* C22: a feed error calls the callback once with null and changes nothing
\* in the tracker: it stays running with the same watch, no watch is added,
\* and a position update that comes after it is handled as without the error.
C22_ErrorIsLostPose ==
    [][/\ (last'.op = "error" /\ last'.src = "gps") =>
             /\ Len(out') = 1 /\ out'[1].pose = Null
             /\ gps' = gps
             /\ gps'.isRunning /\ gps'.watchId /\ gps'.watches = 1
       /\ (last.op = "error" /\ last.src = "gps"
             /\ last'.op = "position" /\ now' - gps.lastUpdateTime >= 1000) =>
             /\ Len(out') = 1 /\ out'[1].pose # Null]_vars

C22_Witness ==
    /\ last.op = "error"
    /\ last.src = "gps"
    /\ Len(out) = 1
    /\ gps.isRunning
    /\ gps.lastPosition # Null

\* ---------------------------------------------------------- updateConfig
IsRunning(s) ==
    IF s = "alva" THEN alva.isRunning
    ELSE IF s = "gps" THEN gps.isRunning
    ELSE image.isRunning

\* start() of the source has been called and is in effect or under way
Started(s) ==
    IF s = "alva" THEN alva.isRunning \/ alva.starts > 0 \/ ~video
    ELSE IF s = "gps" THEN gps.isRunning
    ELSE image.isRunning \/ ~video

UpdateRan == last.op \in {"updateConfig", "settled"}

InitFailed == last.op = "settled" /\ last.kind = "error"

\* C30 (as claimed): dispose() completes without error, and afterwards no
\* tracker slot holds a tracker and no tracker is running.
C30_DisposeCompletes ==
    last.op = "dispose" =>
        /\ last.kind = "done"
        /\ \A s \in ManagerSources : ~trackers[s] /\ ~IsRunning(s)

\* C31: an updateConfig call that only sets flags to false, each of a source
\* that was never constructed or never started, completes without suspending
\* or failing, constructs no source and leaves the running state of every
\* source as it was
C31_DisableIsSafe ==
    [][LET NotStarted(s) ==
               \/ ~trackers[s]
               \/ s = "alva" /\ ~alva.isRunning /\ alva.starts = 0
                             /\ alva.frameTimeout = "unset"
               \/ s = "image" /\ ~image.isRunning /\ image.timers = 0
       IN (/\ last'.op = "updateConfig"
           /\ DOMAIN config' # {}
           /\ \A s \in DOMAIN config' : ~config'[s] /\ NotStarted(s))
          => /\ last'.kind = "done"
             /\ trackers' = trackers
             /\ alva'.isRunning = alva.isRunning /\ alva'.starts = alva.starts
             /\ gps'.isRunning = gps.isRunning
             /\ image'.isRunning = image.isRunning]_vars

C33_OnlyOwnFields ==
    \A i \in 1..Len(sink) :
        \E j \in 1..Len(out) :
            /\ out[j].src = sink[i].source
            /\ out[j].pose # Null
            /\ sink[i] = [source |-> out[j].src] @@ out[j].pose

\* C34: when the last suspended updateConfig call has settled, each source
\* is started (running, or its start() under way) if and only if its flag
\* in the configuration then in force is true, also when another call was
\* made during the suspension
C34_SettledMatchesConfig ==
    (last.op = "settled" /\ last.kind = "done" /\ DOMAIN pending = {} /\ video)
        => \A s \in ManagerSources : Started(s) <=> Truthy(config, s)

\* C35: whenever the AlvaTracker is running its frame loop is alive: a frame
\* timer is pending (between tasks no frame is being processed and start()
\* has passed its first frame), also when start() is called on a tracker
\* whose initialize() has not completed or has failed
C35_RunningLoopAlive ==
    alva.isRunning => FrameTimerPending(alva)

\* C37: currentPose is never reset.  No step of the manager takes a
\* non-null currentPose back to null, in the merging manager and in the
\* smoothing one alike: a step that accepts no pose (a null report, a report
\* of a disabled source, updateConfig, stop, dispose) leaves currentPose as
\* it was,
\* and a step that accepts poses leaves the last accepted one in it
C37_CurrentPoseKept ==
    [][/\ currentPose # Null => currentPose' # Null
       /\ fusion.currentPose # Null => fusion'.currentPose # Null
       /\ driven = "manager" =>
             currentPose' = IF sink' = <<>> THEN currentPose
                            ELSE sink'[Len(sink')]
       /\ (driven = "fusion" /\ (sink' = <<>> \/ sink' = <<Null>>)) =>
             fusion'.currentPose = fusion.currentPose]_vars

\* a pose was accepted earlier; the manager has just been stopped, or the
\* source of the pose has been disabled, or a source has reported null, and
\* getCurrentPose() still returns the pose
C37_Witness ==
    /\ driven = "manager"
    /\ currentPose # Null
    /\ sink = <<>>
    /\ \/ last.op = "stop"
       \/ last.op = "updateConfig" /\ ~Truthy(config, currentPose.source)
       \/ Len(out) > 0 /\ out[Len(out)].pose = Null

\* C38: a frame that finds the video not ready (readyState other than 4)
\* is skipped: the callback is not invoked, lastPose, consecutiveLostFrames
\* and poseTimeout are what they were before the frame, and the next frame
\* is scheduled
C38_UnreadyFrameSkipped ==
    [][(/\ driven = "alva"
        /\ last'.op = "frame"
        /\ last'.kind = "notready"
        /\ alva.isRunning /\ alva.ctx /\ alva.video /\ alva.alva)
       => /\ out' = <<>>
          /\ alva'.lastPose = alva.lastPose
          /\ alva'.consecutiveLostFrames = alva.consecutiveLostFrames
          /\ alva'.poseTimeout = alva.poseTimeout
          /\ alva'.poseOrphans = alva.poseOrphans
          /\ alva'.isRunning
          /\ alva'.frameTimeout = "live"]_vars

\* an unready frame met a held pose, a positive count of lost frames and a
\* pending pose timeout, and left them alone
C38_Witness ==
    /\ driven = "alva"
    /\ last.op = "frame"
    /\ last.kind = "notready"
    /\ last.preRunning /\ alva.ctx /\ alva.alva
    /\ out = <<>>
    /\ alva.lastPose # Null /\ alva.lastPose = last.preHeld
    /\ alva.consecutiveLostFrames > 0
    /\ alva.consecutiveLostFrames = last.preLost
    /\ alva.poseTimeout = "live"
    /\ alva.frameTimeout = "live"

\* C39: in GPSTracker isRunning is true exactly when watchId is non-null,
\* after any sequence of start(), stop(), position updates and feed errors;
\* so exactly one subscription of the geolocation feed is open while the
\* tracker is running and none while it is stopped
C39_RunningIffWatching ==
    driven = "gps" =>
        /\ gps.isRunning <=> gps.watchId
        /\ gps.watches = IF gps.isRunning THEN 1 ELSE 0

\* the feed has delivered a position and then an error, and the tracker is
\* still running on its one subscription
C39_Witness ==
    /\ driven = "gps"
    /\ last.op = "error"
    /\ gps.lastPosition # Null
    /\ gps.isRunning /\ gps.watchId /\ gps.watches = 1

\* C1 (as claimed): once no updateConfig call is still in progress, every
\* constructed source whose flag went from true to false has had its stop()
\* called, and the consumer callback is only invoked with poses of sources
\* whose flag is true.
C1_DisabledIsQuiet ==
    /\ DOMAIN pending = {} => hist.stopOwed = {}
    /\ \A i \in 1..Len(sink) : Truthy(config, sink[i].source)

\* C3 (as claimed): updateConfig leaves the flag of every source its argument
\* does not name as it was, and neither starts nor stops such a source.
C3_OnlyNamedChange ==
    last.op = "updateConfig" => last.drift = {} /\ last.meddled = {}

\* C4 (as claimed): after an enabling updateConfig call has completed, the
\* sources it started are running.
C4_EnabledIsRunning ==
    (UpdateRan /\ last.kind = "done") => \A s \in last.starts : IsRunning(s)

\* C4 (amended): a source is constructed (and initialized) only while its
\* slot is empty, so at most once until dispose() empties it; a disabled
\* source is stopped and keeps its instance; an updateConfig call that runs
\* to its end starts every source whose flag is true and stops every
\* constructed source whose flag is not; after start() was called gps is
\* running, image is running if a video was supplied, and alva is running or
\* its start() is still waiting for the video's dimensions (or has failed for
\* want of a video).
C4_Lifecycle ==
    /\ \A s \in ManagerSources :
          hist.built[s] = IF trackers[s] THEN 1 ELSE 0
    /\ \A s \in last.stops :
          ~IsRunning(s) /\ (last.op # "dispose" => trackers[s])
    /\ UpdateRan => \A s \in last.starts : trackers[s] /\ Started(s)
    /\ (last.op = "updateConfig" /\ last.kind = "done") =>
          \A s \in ManagerSources :
            /\ Truthy(config, s) => s \in last.starts
            /\ (~Truthy(config, s) /\ trackers[s]) => s \in last.stops

C4_Witness ==
    /\ last.op = "settled" /\ last.kind = "done"
    /\ "alva" \in last.starts
    /\ video /\ alva.starts > 0 /\ ~alva.isRunning
    /\ hist.built["alva"] = 1

\* C5 (as claimed): when initialize() of a source fails inside updateConfig,
\* the source is not running and its flag has the value it had before the
\* call.
C5_InitFailureRollsBack ==
    InitFailed =>
        /\ ~IsRunning(last.src)
        /\ Truthy(config, last.src) <=> last.src \in last.pre

\* C6 (as claimed): when initialize() of one source fails, the transitions of
\* the same update for the other sources have been applied: running their
\* parts of updateConfig now would change nothing.
C6_OthersApplied ==
    InitFailed => last.unapplied = {}

\* ------------------------------------------------------------ the holder
\* C2 (as claimed): once AlvaTracker.stop() has returned and until start() is
\* called again, isRunning is false, no timer of the tracker is pending and
\* the pose callback is not invoked.
C2_StopEffective ==
    "alva" \in hist.stopped =>
        /\ ~alva.isRunning
        /\ ~FrameTimerPending(alva)
        /\ ~PoseTimerPending(alva)
        /\ out = <<>>

\* C7 (as claimed): with a last-good pose, no-pose frames 1 to 4 re-emit the
\* held pose and the 5th consecutive no-pose frame emits no null itself.
C7_NullOnlyByTimer ==
    LostFrameHeld =>
        LET n == Tracker(last.src).consecutiveLostFrames IN
        /\ n \in 1..4 => out[1].pose = last.preHeld
        /\ n = 5 => out[1].pose # Null

\* C7 (amended): with a last-good pose still held, a no-pose frame re-emits
\* the held pose while the count of consecutive no-pose frames is 1 to 4, and
\* from the 5th on the frame itself emits null at once (the held pose stays
\* stored until the timeout fires); the timeout callback emits null as well.
C7_HeldThenNull ==
    /\ LostFrameHeld =>
         LET t == Tracker(last.src) IN
         /\ t.consecutiveLostFrames = last.preLost + 1
         /\ t.lastPose = last.preHeld
         /\ out[1].pose = IF t.consecutiveLostFrames < maxConsecutiveLostFrames
                          THEN last.preHeld ELSE Null
    /\ last.op = "posetimer" => Len(out) = 1 /\ out[1].pose = Null

C7_Witness ==
    /\ LostFrameHeld
    /\ Tracker(last.src).consecutiveLostFrames = 5
    /\ out[1].pose = Null

\* C36: the holder never holds forever.  The count of consecutive no-pose
\* frames grows by one on every no-pose frame and only an accepted pose
\* resets it; a no-pose frame re-emits the held pose only while the count is
\* at most maxConsecutiveLostFrames - 1 = 4 and the timeout has not fired
\* since the last accepted pose, and from the 5th consecutive no-pose frame
\* on every such frame hands null to the callback, whether or not a timeout
\* timer is pending
C36_HoldIsBounded ==
    LET t == Tracker(last.src)
        n == t.consecutiveLostFrames
        Ran(kinds) == /\ last.op \in {"frame", "resume", "start"}
                      /\ last.src \in HolderSources
                      /\ last.kind \in kinds
                      /\ Len(out) = 1
    IN /\ Ran({"none", "nonethrow"}) =>
            /\ n = last.preLost + 1
            /\ out[1].pose # Null =>
                  /\ out[1].pose = last.preHeld
                  /\ n <= maxConsecutiveLostFrames - 1
                  /\ n <= 4
                  /\ last.src \notin hist.timedOut
            /\ n >= maxConsecutiveLostFrames => out[1].pose = Null
       /\ Ran({"pose"}) => n = 0
       /\ (Ran({"notready", "throw", "posethrow"}) \/ last.op = "posetimer")
             => n = last.preLost

\* the 5th no-pose frame in a row emits null although the pose is still
\* stored and no timeout timer is or was pending
C36_Witness ==
    /\ RanFrame("none")
    /\ Tracker(last.src).consecutiveLostFrames = maxConsecutiveLostFrames
    /\ Tracker(last.src).lastPose # Null
    /\ ~last.preTimer
    /\ ~PoseTimerPending(Tracker(last.src))
    /\ out[1].pose = Null

\* C8 (as claimed): after a no-pose frame re-emitted the held pose, a pose
\* timeout is pending.
C8_TimerArmed ==
    (LostFrameHeld /\ out[1].pose # Null) => PoseTimerPending(Tracker(last.src))

\* C9: a frame that accepts a fresh pose leaves no pose timeout pending (so
\* the timeout armed while holding can neither clear lastPose nor emit null
\* later) and leaves the consecutive-lost-frame counter at 0.
C9_FreshPoseCancels ==
    RanFrame("pose") =>
        LET t == Tracker(last.src) IN
        /\ ~PoseTimerPending(t)
        /\ t.consecutiveLostFrames = 0
        /\ t.lastPose = out[1].pose
        /\ last.src \notin hist.timedOut

C9_Witness ==
    /\ RanFrame("pose")
    /\ last.op = "frame"
    /\ last.preTimer
    /\ last.preLost > 0

\* C10: the pose timeout clears the held pose and emits null once, it is not
\* pending afterwards, and until a fresh pose is accepted lastPose stays null
\* and every no-pose frame emits null.
C10_TimeoutClears ==
    /\ (last.op = "posetimer" =>
          /\ Len(out) = 1 /\ out[1].pose = Null
          /\ last.preHeld # Null
          /\ ~PoseTimerPending(Tracker(last.src)))
    /\ \A s \in hist.timedOut : Tracker(s).lastPose = Null
    /\ (RanFrame("none") /\ last.src \in hist.timedOut => out[1].pose = Null)

C10_Witness ==
    /\ RanFrame("none")
    /\ last.op = "frame"
    /\ last.src \in hist.timedOut
    /\ out[1].pose = Null

====
